---- MODULE Spec2Model ----
(***************************************************************************)
(* A model of the focalboard AI assistant back end:                        *)
(*   - RAGService (server/api/ai_rag_service.go, src/unnamed/part_001):    *)
(*     PrepareRAGResponse and the functions it calls;                      *)
(*   - handleAIChatStream (src/server/api/ai.go): the streaming relay,     *)
(*     and handleAIChat, the handler that answers in one piece.            *)
(*                                                                         *)
(* Text is modelled as text.  A Go string is a TLA+ string, taken apart    *)
(* with Len and SubSeq, so that prefix tests, substring tests, upper-      *)
(* casing, trimming and the \b word boundary of Go's regexp are computed   *)
(* character by character, as the Go library computes them.                *)
(* Two characters cannot be written in a TLA+ string literal and are       *)
(* transliterated: the backquote is written ~, and a Chinese character is  *)
(* written by its pinyin name.  A question is a sequence of characters,    *)
(* each a one-character string or the name of a Chinese character (see     *)
(* Questions); inside a string a Chinese character is its name in braces.  *)
(***************************************************************************)
EXTENDS Integers, Sequences, FiniteSets, TLC

VARIABLES
    \* --- validateReadOnlySQL applied to one input (SpecValidate)
    valPc,          \* "call" before the call, "ret" after it
    valInput,       \* the sqlText argument
    valResult,      \* the error returned (NoErr for nil)
    \* --- one request handled by handleAIChatStream (SpecRelay)
    rPc,            \* where the handler is: "read", "rag", "config", "connect",
                    \*   "stream" (the scanner loop), "final", "done"
    aiReq,          \* the decoded request body: Message, Messages
    streamMessages, \* the message list put in the request to the LLM
    upstream,       \* the lines of the LLM's response body
    upstreamEnd,    \* how that body ends: "eof" or "error" (a failed read)
    rPos,           \* the number of lines the scanner has returned
    scanErr,        \* scanner.Err() is non-nil
    sse,            \* the response's Content-Type was set to text/event-stream
    out,            \* what was written to the client, in order
    llmSent,        \* the message lists of the requests a handler made of
                    \*   the LLM endpoint (client.Do), in order
    \* --- one request handled by handleAIChat
    chatPc,         \* where the handler is: "read", "config", "connect", "done"
    \* --- one call of PrepareRAGResponse (SpecRAG)
    ragPc,          \* where the call is: "classify", "generate", "execute",
                    \*   "fallback", "prompt", "done"
    ragQuestion,    \* the question argument, a sequence of characters
    ragUserID,      \* the userID argument
    envAPIKey,      \* the environment's DASHSCOPE_API_KEY
    cfgDBType,      \* the configuration's DBType
    boards,         \* the rows of boards
    blocks,         \* the rows of blocks
    intent,         \* classifyIntent's result
    ragCatalog,     \* the catalog generateSQL got from discoverPropertyCatalog
    ragSQLText,     \* generateSQL's result
    contextJSON,    \* the JSON text that goes into the prompt
    contextRows,    \* the rowids of the rows of blocks behind contextJSON
    ragResult,      \* what the call returned: prompt and err
    ragLog,         \* the calls made so far of the LLM, of validateReadOnlySQL
                    \*   and of executeQuery, in order
    \* --- two calls of PrepareRAGResponse at the same time (SpecPair)
    inv,            \* the locals of each call: where it is, its arguments,
                    \*   the answers its environment gives it, its catalog,
                    \*   statement, result text and return value
    \* --- one request handled by handleAIModifyCardStatus (SpecModify)
    modPc,          \* where the handler is: "read", "check", "card", "perm",
                    \*   "board", "prop", "patch", "done"
    modBody,        \* the request body
    modPerm,        \* the boards on which the caller holds
                    \*   PermissionManageBoardCards
    modCards,       \* the cards of the store: id -> board and properties
    modBoards,      \* the boards of the store: id -> card property
                    \*   definitions, and whether GetBoard fails
    modPatchFails,  \* whether PatchCard fails
    modCard,        \* the handler's card
    modPropID,      \* the handler's statusPropertyID
    modCalls,       \* the calls the handler made of the app and of the
                    \*   permission service, in order
    modResp,        \* the response written: status code and message
    \* --- one request handled by handleAICreateCard (SpecCreate)
    crtPc,          \* where the handler is: "read", "check", "perm", "valid",
                    \*   "create", "done"
    crtBody,        \* the request body
    crtPerm,        \* the boards on which the caller holds
                    \*   PermissionManageBoardCards
    crtCreateFails, \* whether CreateCard fails
    crtCard,        \* the handler's newCard
    crtCards,       \* the cards the app created, in order
    crtCalls,       \* the calls the handler made of the app, of the
                    \*   permission service and of the audit log, in order
    crtResp,        \* the response written: status code and message
    \* --- the chat widget TaskAIChat (SpecSend)
    sendCur,        \* the component's state with every update applied
    sendView,       \* the state of the last render: what the handlers of
                    \*   that render see
    sendReqs,       \* the calls of octoClient.sendAIChat, in order, each
                    \*   with how it stands
    sendLog,        \* the calls of handleSend, in order
    sendStale       \* handleSend was called from a render older than the
                    \*   state

valVars == <<valPc, valInput, valResult>>
relayVars == <<rPc, aiReq, streamMessages, upstream, upstreamEnd, rPos, scanErr, sse, out, llmSent, chatPc>>
ragVars == <<ragPc, ragQuestion, ragUserID, envAPIKey, cfgDBType, boards, blocks, intent, ragCatalog,
             ragSQLText, contextJSON, contextRows, ragResult, ragLog>>
pairVars == <<inv>>
modVars == <<modPc, modBody, modPerm, modCards, modBoards, modPatchFails, modCard, modPropID, modCalls,
             modResp>>
crtVars == <<crtPc, crtBody, crtPerm, crtCreateFails, crtCard, crtCards, crtCalls, crtResp>>
sendVars == <<sendCur, sendView, sendReqs, sendLog, sendStale>>
vars == <<valVars, relayVars, ragVars, pairVars, modVars, crtVars, sendVars>>
\* What an action of one part leaves alone: the other parts.
notVal == <<relayVars, ragVars, pairVars, modVars, crtVars, sendVars>>
notRelay == <<valVars, ragVars, pairVars, modVars, crtVars, sendVars>>
notRag == <<valVars, relayVars, pairVars, modVars, crtVars, sendVars>>
notMod == <<valVars, relayVars, ragVars, pairVars, crtVars, sendVars>>
notCrt == <<valVars, relayVars, ragVars, pairVars, modVars, sendVars>>
notSend == <<valVars, relayVars, ragVars, pairVars, modVars, crtVars>>
\* What the handlers leave alone of the pipeline's variables when they keep
\* the result of their call of PrepareRAGResponse.
ragVarsButResult == <<ragPc, ragQuestion, ragUserID, envAPIKey, cfgDBType, boards, blocks, intent,
                      ragCatalog, ragSQLText, contextJSON, contextRows, ragLog>>

-----------------------------------------------------------------------------
(* Go's strings package, on TLA+ strings.                                  *)

Char(s, i) == SubSeq(s, i, i)

\* p occurs in s at i.
OccursAt(s, i, p) == i >= 1 /\ i + Len(p) - 1 <= Len(s) /\ SubSeq(s, i, i + Len(p) - 1) = p

HasPrefix(s, p) == OccursAt(s, 1, p)

Contains(s, t) == \E i \in 1..(Len(s) - Len(t) + 1) : SubSeq(s, i, i + Len(t) - 1) = t

LowerLetters == "abcdefghijklmnopqrstuvwxyz"
UpperLetters == "ABCDEFGHIJKLMNOPQRSTUVWXYZ"
Digits == "0123456789"

CharsOf(s) == {Char(s, i) : i \in 1..Len(s)}

UpperOf == [c \in CharsOf(LowerLetters) |->
              Char(UpperLetters, CHOOSE i \in 1..Len(LowerLetters) : Char(LowerLetters, i) = c)]

UpperChar(c) == IF c \in DOMAIN UpperOf THEN UpperOf[c] ELSE c

\* The text s[lo..hi] with each character upper-cased (by halves, to keep
\* the recursion shallow).
RECURSIVE MapUpper(_, _, _)
MapUpper(s, lo, hi) ==
    IF lo > hi THEN ""
    ELSE IF lo = hi THEN UpperChar(Char(s, lo))
    ELSE LET mid == (lo + hi) \div 2 IN MapUpper(s, lo, mid) \o MapUpper(s, mid + 1, hi)

ToUpper(s) == MapUpper(s, 1, Len(s))

LowerOf == [c \in CharsOf(UpperLetters) |->
              Char(LowerLetters, CHOOSE i \in 1..Len(UpperLetters) : Char(UpperLetters, i) = c)]

LowerChar(c) == IF c \in DOMAIN LowerOf THEN LowerOf[c] ELSE c

RECURSIVE MapLower(_, _, _)
MapLower(s, lo, hi) ==
    IF lo > hi THEN ""
    ELSE IF lo = hi THEN LowerChar(Char(s, lo))
    ELSE LET mid == (lo + hi) \div 2 IN MapLower(s, lo, mid) \o MapLower(s, mid + 1, hi)

ToLower(s) == MapLower(s, 1, Len(s))

SpaceChars == {" ", "\t", "\n", "\r"}

RECURSIVE FirstNonSpace(_, _)
FirstNonSpace(s, i) ==
    IF i > Len(s) \/ Char(s, i) \notin SpaceChars THEN i ELSE FirstNonSpace(s, i + 1)

RECURSIVE LastNonSpace(_, _)
LastNonSpace(s, j) ==
    IF j < 1 \/ Char(s, j) \notin SpaceChars THEN j ELSE LastNonSpace(s, j - 1)

TrimSpace(s) == SubSeq(s, FirstNonSpace(s, 1), LastNonSpace(s, Len(s)))

\* strings.Index: the first place t occurs in s at or after i, or 0.
IndexFrom(s, t, i) ==
    LET hits == {k \in i..(Len(s) - Len(t) + 1) : SubSeq(s, k, k + Len(t) - 1) = t}
    IN  IF hits = {} THEN 0 ELSE CHOOSE k \in hits : \A m \in hits : k <= m

\* strings.Split(s, sep), sep not empty.
RECURSIVE Split(_, _)
Split(s, sep) ==
    LET k == IndexFrom(s, sep, 1)
    IN  IF k = 0 THEN <<s>>
        ELSE <<SubSeq(s, 1, k - 1)>> \o Split(SubSeq(s, k + Len(sep), Len(s)), sep)

\* strings.Join
RECURSIVE Join(_, _)
Join(parts, sep) ==
    IF parts = <<>> THEN ""
    ELSE IF Len(parts) = 1 THEN parts[1]
    ELSE parts[1] \o sep \o Join(Tail(parts), sep)

\* strings.TrimRight(s, cutset) for a cutset of one character.
RECURSIVE TrimRight(_, _)
TrimRight(s, c) ==
    IF Len(s) > 0 /\ Char(s, Len(s)) = c THEN TrimRight(SubSeq(s, 1, Len(s) - 1), c) ELSE s

\* strconv.Itoa for a natural number.
RECURSIVE Itoa(_)
Itoa(n) == IF n < 10 THEN Char(Digits, n + 1) ELSE Itoa(n \div 10) \o Char(Digits, (n % 10) + 1)

-----------------------------------------------------------------------------
(* Errors.  A Go error is a record: the sentinel it wraps (errors.Is) and  *)
(* the text that fmt.Errorf appended to it.                                *)

NoErr == [err |-> "nil", detail |-> ""]
Err(e, d) == [err |-> e, detail |-> d]

-----------------------------------------------------------------------------
(* Each specification below runs one part of the program and leaves the    *)
(* variables of the other parts at these values.                           *)

ValIdle ==
    /\ valPc = "idle"
    /\ valInput = ""
    /\ valResult = NoErr

RagIdle ==
    /\ ragPc = "idle"
    /\ ragQuestion = <<>>
    /\ ragUserID = ""
    /\ cfgDBType = ""
    /\ boards = <<>>
    /\ blocks = {}
    /\ intent = ""
    /\ ragCatalog = [nil |-> TRUE]
    /\ ragSQLText = ""
    /\ contextJSON = ""
    /\ contextRows = <<>>
    /\ ragResult = [prompt |-> "", err |-> NoErr]
    /\ ragLog = <<>>

PairIdle == inv = <<>>

ModIdle ==
    /\ modPc = "idle"
    /\ modBody = [kind |-> "json", cardId |-> "", status |-> ""]
    /\ modPerm = {}
    /\ modCards = <<>>
    /\ modBoards = <<>>
    /\ modPatchFails = FALSE
    /\ modCard = [found |-> FALSE]
    /\ modPropID = ""
    /\ modCalls = <<>>
    /\ modResp = [code |-> 0, msg |-> ""]

CrtIdle ==
    /\ crtPc = "idle"
    /\ crtBody = [kind |-> "null"]
    /\ crtPerm = {}
    /\ crtCreateFails = FALSE
    /\ crtCard = [nil |-> TRUE]
    /\ crtCards = <<>>
    /\ crtCalls = <<>>
    /\ crtResp = [code |-> 0, msg |-> ""]

SendIdle ==
    /\ sendCur = [mounted |-> FALSE]
    /\ sendView = [mounted |-> FALSE]
    /\ sendReqs = <<>>
    /\ sendLog = <<>>
    /\ sendStale = FALSE

RelayIdle ==
    /\ rPc = "idle"
    /\ aiReq = [Message |-> "", Messages |-> <<>>]
    /\ streamMessages = <<>>
    /\ upstream = <<>>
    /\ upstreamEnd = "eof"
    /\ rPos = 0
    /\ scanErr = FALSE
    /\ sse = FALSE
    /\ out = <<>>
    /\ llmSent = <<>>
    /\ chatPc = "idle"

-----------------------------------------------------------------------------
(* validateReadOnlySQL                                                     *)

forbiddenKeywords == <<"DELETE", "UPDATE", "DROP", "INSERT", "TRUNCATE", "ALTER">>
forbiddenChars == <<";", "--", "/*">>

\* The class \w of Go's regexp (RE2): ASCII letters, digits and underscore.
WordChars == CharsOf(LowerLetters) \cup CharsOf(UpperLetters) \cup CharsOf(Digits) \cup {"_"}

\* The keyword matched as a substring, without the word boundaries.
MatchSubstring(s, kw) == Contains(s, kw)

\* regexp `\bKW\b` matches s: KW occurs at i with a word boundary on both
\* sides.  KW begins and ends with a word character, so a boundary there is
\* the text's edge or a non-word character.
MatchWord(s, kw) ==
    \E i \in 1..(Len(s) - Len(kw) + 1) :
        /\ SubSeq(s, i, i + Len(kw) - 1) = kw
        /\ (i = 1 \/ Char(s, i - 1) \notin WordChars)
        /\ (i + Len(kw) - 1 = Len(s) \/ Char(s, i + Len(kw)) \notin WordChars)

\* The first element of the list seq among those at the indexes hits, as a
\* one-element sequence, or <<>>: a Go loop over seq that returns at the
\* first element satisfying its test.
FirstIn(seq, hits) ==
    IF hits = {} THEN <<>>
    ELSE <<seq[CHOOSE i \in hits : \A j \in hits : i <= j]>>

\* validateReadOnlySQL with the last two rules in the other order.
ValidateCharsFirst(sqlText) ==
    IF sqlText = "" THEN Err("ErrGeneratedSQLEmpty", "")
    ELSE LET up == ToUpper(TrimSpace(sqlText))
             kwHit == FirstIn(forbiddenKeywords,
                              {i \in 1..Len(forbiddenKeywords) : MatchWord(up, forbiddenKeywords[i])})
             chHit == FirstIn(forbiddenChars,
                              {i \in 1..Len(forbiddenChars) : Contains(up, forbiddenChars[i])})
         IN  IF ~HasPrefix(up, "SELECT") THEN Err("ErrGeneratedSQLNotSelect", sqlText)
             ELSE IF chHit # <<>> THEN Err("ErrGeneratedSQLChars", chHit[1])
             ELSE IF kwHit # <<>> THEN Err("ErrGeneratedSQLForbidden", kwHit[1])
             ELSE NoErr

validateReadOnlySQL(sqlText) ==
    IF sqlText = "" THEN Err("ErrGeneratedSQLEmpty", "")
    ELSE LET up == ToUpper(TrimSpace(sqlText))
             kwHit == FirstIn(forbiddenKeywords,
                              {i \in 1..Len(forbiddenKeywords) : MatchWord(up, forbiddenKeywords[i])})
             chHit == FirstIn(forbiddenChars,
                              {i \in 1..Len(forbiddenChars) : Contains(up, forbiddenChars[i])})
         IN  IF ~HasPrefix(up, "SELECT") THEN Err("ErrGeneratedSQLNotSelect", sqlText)
             ELSE IF kwHit # <<>> THEN Err("ErrGeneratedSQLForbidden", kwHit[1])
             ELSE IF chHit # <<>> THEN Err("ErrGeneratedSQLChars", chHit[1])
             ELSE NoErr

-----------------------------------------------------------------------------
(* RAGService: questions.                                                  *)
(* A question is a sequence of characters, each written as a string: a     *)
(* Latin character as itself, a Chinese character as its pinyin name (dai1 *)
(* is the first character of "proxy", dai2 the first of "to do").  The     *)
(* keyword tests of the code are substring tests on that sequence.         *)

\* strings.ToLower: a Chinese character has no lower case and stays.
QToLower(q) == [i \in 1..Len(q) |-> LowerChar(q[i])]

RECURSIVE QFirstNonSpace(_, _)
QFirstNonSpace(q, i) == IF i > Len(q) \/ q[i] \notin SpaceChars THEN i ELSE QFirstNonSpace(q, i + 1)

RECURSIVE QLastNonSpace(_, _)
QLastNonSpace(q, j) == IF j < 1 \/ q[j] \notin SpaceChars THEN j ELSE QLastNonSpace(q, j - 1)

QTrimSpace(q) == SubSeq(q, QFirstNonSpace(q, 1), QLastNonSpace(q, Len(q)))

\* The question as text inside a prompt.
RECURSIVE QText(_)
QText(q) == IF q = <<>> THEN "" ELSE Head(q) \o QText(Tail(q))

kwChaxunWodeRenwu == <<"cha", "xun", "wo", "de", "ren", "wu">>
kwWodeRenwu == <<"wo", "de", "ren", "wu">>
kwRenwu == <<"ren", "wu">>
kwWo == <<"wo">>
kwChaxun == <<"cha", "xun">>
kwDaiban == <<"dai1", "ban">>
kwDaiban2 == <<"dai2", "ban">>
kwJinxingzhong == <<"jin", "xing", "zhong">>
kwWeiwancheng == <<"wei", "wan", "cheng">>
kwWancheng == <<"wan", "cheng">>
kwYiwancheng == <<"yi", "wan", "cheng">>
kwYuqi == <<"yu", "qi">>
kwGuoqi == <<"guo", "qi">>
kwJiezhi == <<"jie", "zhi">>
kwDaoqi == <<"dao", "qi">>
kwGuoleJiezhiRiqi == <<"guo", "le", "jie", "zhi", "ri", "qi">>
kwJiezhiRiqiYiguo == <<"jie", "zhi", "ri", "qi", "yi", "guo">>
kwYiguoqi == <<"yi", "guo", "qi">>

\* The tests of generateSQL's five templates, on the lower-cased trimmed question.
IsMyTasks(q) ==
    Contains(q, kwChaxunWodeRenwu) \/ Contains(q, kwWodeRenwu)
        \/ (Contains(q, kwRenwu) /\ Contains(q, kwWo))
IsTodo(q) == Contains(q, kwDaiban) \/ Contains(q, kwWeiwancheng) \/ Contains(q, kwDaiban2)
IsDone(q) == Contains(q, kwYiwancheng) \/ (Contains(q, kwWancheng) /\ ~Contains(q, kwWeiwancheng))
IsInProgress(q) == Contains(q, kwJinxingzhong)
IsOverdue(q) ==
    Contains(q, kwYuqi) \/ Contains(q, kwGuoqi) \/ Contains(q, kwGuoleJiezhiRiqi)
        \/ Contains(q, kwJiezhiRiqiYiguo) \/ Contains(q, kwYiguoqi)

-----------------------------------------------------------------------------
(* RAGService: the property catalog and the clauses built from it.         *)

\* A nil *propCatalog.
NilCatalog == [nil |-> TRUE]

Catalog(person, multi, status, date) ==
    [nil |-> FALSE, PersonPropIDs |-> person, MultiPersonPropIDs |-> multi,
     StatusPropOptions |-> status, DatePropIDs |-> date]

EmptyCatalog == Catalog(<<>>, <<>>, <<>>, <<>>)

\* A Go map[string]string is a function on a finite set of strings; the
\* empty map is <<>>.
MapPut(m, k, v) == [x \in (DOMAIN m) \cup {k} |-> IF x = k THEN v ELSE m[x]]

\* The option map of a status property: upper-cased option value -> option id.
RECURSIVE OptionsMap(_)
OptionsMap(opts) ==
    IF opts = <<>> THEN <<>>
    ELSE LET o == opts[Len(opts)]
             rest == OptionsMap(SubSeq(opts, 1, Len(opts) - 1))
         IN  IF o.id # "" /\ o.value # "" THEN MapPut(rest, ToUpper(o.value), o.id) ELSE rest

EqualFold(a, b) == ToUpper(a) = ToUpper(b)

\* The catalog after one property definition.
AddProp(cat, prop) ==
    IF prop.type = "person" /\ prop.id # ""
        THEN [cat EXCEPT !.PersonPropIDs = Append(@, prop.id)]
    ELSE IF prop.type = "multiPerson" /\ prop.id # ""
        THEN [cat EXCEPT !.MultiPersonPropIDs = Append(@, prop.id)]
    ELSE IF prop.type \in {"select", "multiSelect"}
            /\ (EqualFold(prop.name, "Status") \/ EqualFold(prop.name, "{zhuang}{tai}"))
            /\ prop.id # "" /\ OptionsMap(prop.options) # <<>>
        THEN [cat EXCEPT !.StatusPropOptions = MapPut(@, prop.id, OptionsMap(prop.options))]
    ELSE IF prop.type = "date" /\ prop.id # ""
        THEN [cat EXCEPT !.DatePropIDs = Append(@, prop.id)]
    ELSE cat

RECURSIVE AddProps(_, _)
AddProps(cat, props) ==
    IF props = <<>> THEN cat ELSE AddProps(AddProp(cat, Head(props)), Tail(props))

\* The loop over the rows of boards: a board whose card_properties is no
\* JSON list is skipped.
RECURSIVE CatalogOf(_, _)
CatalogOf(cat, boardRows) ==
    IF boardRows = <<>> THEN cat
    ELSE LET b == Head(boardRows)
         IN  CatalogOf(IF b.malformed THEN cat ELSE AddProps(cat, b.card_properties),
                       Tail(boardRows))

\* buildAssigneeClause returning no condition for any catalog.
AssigneeClauseDropped(userID, cat) == ""

\* buildAssigneeClause without the tests of the multi-person properties.
AssigneeClausePersonOnly(userID, cat) ==
    IF cat.nil \/ Len(cat.PersonPropIDs) = 0 THEN ""
    ELSE LET person == [i \in 1..Len(cat.PersonPropIDs) |->
                 "json_extract(fields, '$.properties." \o cat.PersonPropIDs[i] \o "') = '" \o userID \o "'"]
         IN  " AND (" \o Join(person, " OR ") \o ")"

buildAssigneeClause(userID, cat) ==
    IF cat.nil \/ (Len(cat.PersonPropIDs) = 0 /\ Len(cat.MultiPersonPropIDs) = 0) THEN ""
    ELSE LET person == [i \in 1..Len(cat.PersonPropIDs) |->
                 "json_extract(fields, '$.properties." \o cat.PersonPropIDs[i] \o "') = '" \o userID \o "'"]
             multi == [i \in 1..Len(cat.MultiPersonPropIDs) |->
                 "EXISTS (SELECT 1 FROM json_each(json_extract(fields, '$.properties."
                     \o cat.MultiPersonPropIDs[i] \o "')) WHERE value = '" \o userID \o "')"]
         IN  " AND (" \o Join(person \o multi, " OR ") \o ")"

doneSyn == <<"{yi}{wan}{cheng}", "{wan}{cheng}", "DONE">>
progSyn == <<"{jin}{xing}{zhong}", "{chu}{li}{zhong}", "IN PROGRESS">>

\* The quoted ids of the options of opts whose label is one of syn.
RECURSIVE SynIDs(_, _)
SynIDs(opts, syn) ==
    IF syn = <<>> THEN <<>>
    ELSE (IF ToUpper(Head(syn)) \in DOMAIN opts
          THEN <<"'" \o opts[ToUpper(Head(syn))] \o "'">> ELSE <<>>) \o SynIDs(opts, Tail(syn))

\* order: the order in which `range cat.StatusPropOptions` yields the keys
\* (Go leaves the iteration order of a map unspecified).
buildStatusOpenClause(cat, order) ==
    IF cat.nil \/ DOMAIN cat.StatusPropOptions = {} THEN ""
    ELSE LET part(sid) ==
                 LET doneIDs == SynIDs(cat.StatusPropOptions[sid], doneSyn)
                 IN  IF Len(doneIDs) > 0
                     THEN "(json_extract(fields, '$.properties." \o sid \o "') NOT IN ("
                            \o Join(doneIDs, ",") \o ") OR json_extract(fields, '$.properties."
                            \o sid \o "') IS NULL)"
                     ELSE "(json_extract(fields, '$.properties." \o sid \o "') IS NULL)"
         IN  " AND (" \o Join([i \in 1..Len(order) |-> part(order[i])], " OR ") \o ")"

\* The parts of a done or in-progress clause, one per status property that
\* has an option with one of the labels syn.
RECURSIVE StatusInParts(_, _, _)
StatusInParts(cat, order, syn) ==
    IF order = <<>> THEN <<>>
    ELSE LET sid == Head(order)
             ids == SynIDs(cat.StatusPropOptions[sid], syn)
         IN  (IF Len(ids) > 0
              THEN <<"json_extract(fields, '$.properties." \o sid \o "') IN (" \o Join(ids, ",") \o ")">>
              ELSE <<>>) \o StatusInParts(cat, Tail(order), syn)

buildStatusDoneClause(cat, order) ==
    IF cat.nil \/ DOMAIN cat.StatusPropOptions = {} THEN ""
    ELSE LET parts == StatusInParts(cat, order, doneSyn)
         IN  IF Len(parts) = 0 THEN "" ELSE " AND (" \o Join(parts, " OR ") \o ")"

buildStatusProgressClause(cat, order) ==
    IF cat.nil \/ DOMAIN cat.StatusPropOptions = {} THEN ""
    ELSE LET parts == StatusInParts(cat, order, progSyn)
         IN  IF Len(parts) = 0 THEN "" ELSE " AND (" \o Join(parts, " OR ") \o ")"

buildOverdueClause(cat, order) ==
    LET parts == IF cat.nil THEN <<>>
                 ELSE [i \in 1..Len(cat.DatePropIDs) |->
                        "(json_extract(json_extract(fields, '$.properties." \o cat.DatePropIDs[i]
                        \o "'), '$.from') IS NOT NULL AND json_extract(json_extract(fields, '$.properties."
                        \o cat.DatePropIDs[i] \o "'), '$.from') < (strftime('%s','now')*1000))"]
        clause == IF Len(parts) > 0 THEN " AND (" \o Join(parts, " OR ") \o ")" ELSE ""
    IN  clause \o buildStatusOpenClause(cat, order)

\* The orders in which a map's keys can be ranged over.
KeyOrders(m) ==
    {o \in [1..Cardinality(DOMAIN m) -> DOMAIN m] : \A i, j \in DOMAIN o : i # j => o[i] # o[j]}

StatusOrders(cat) == IF cat.nil THEN {<<>>} ELSE KeyOrders(cat.StatusPropOptions)

-----------------------------------------------------------------------------
(* RAGService: the calls of the LLM, classifyIntent, generateSQL.          *)

intentChat == "chat"
intentQueryData == "query_data"

\* What callQwenInternal can return: with no API key in the environment the
\* missing-credential error and no request; otherwise a transport error, a
\* non-200 status, an undecodable body, an empty choice list, or the content
\* of the first choice, one of contents.  sent: httpClient.Do was called.
LLMResult(err, content, sent) == [err |-> err, content |-> content, sent |-> sent]

\* callQwenInternal sending its request whatever the key.
CallWithoutKeyCheck(apiKey, contents) ==
    {LLMResult(Err("http", "connection refused"), "", TRUE),
     LLMResult(Err("ErrQwenAPI", "401: invalid_api_key"), "", TRUE)}
    \cup {LLMResult(NoErr, c, TRUE) : c \in contents}

callQwenInternal(apiKey, contents) ==
    IF TrimSpace(apiKey) = "" THEN {LLMResult(Err("ErrAPIKeyNotSet", ""), "", FALSE)}
    ELSE {LLMResult(Err("http", "connection refused"), "", TRUE),
          LLMResult(Err("ErrQwenAPI", "500: internal error"), "", TRUE),
          LLMResult(Err("json", "unexpected end of JSON input"), "", TRUE),
          LLMResult(Err("ErrQwenEmptyChoice", ""), "", TRUE)}
         \cup {LLMResult(NoErr, c, TRUE) : c \in contents}

classifyKeys == <<kwChaxun, kwDaiban, kwJinxingzhong, kwWeiwancheng, kwWancheng,
                  kwYiwancheng, kwYuqi, kwGuoqi, kwJiezhi, kwDaoqi>>

\* The keyword rules of classifyIntent hold for the question.
ClassifiedByKeyword(question) ==
    LET q == QToLower(QTrimSpace(question))
    IN  \/ IsMyTasks(q)
        \/ (\E i \in 1..Len(classifyKeys) : Contains(q, classifyKeys[i])) /\ Contains(q, kwRenwu)

\* classifyByLLM taking an answer with neither word for a data query.
ClassifyDefaultsToQuery(llm) ==
    IF llm.err # NoErr THEN [intent |-> "", err |-> llm.err]
    ELSE LET ans == ToLower(TrimSpace(llm.content))
         IN  IF Contains(ans, intentChat) /\ ~Contains(ans, intentQueryData)
             THEN [intent |-> intentChat, err |-> NoErr]
             ELSE [intent |-> intentQueryData, err |-> NoErr]

\* classifyByLLM returning the answer itself when it holds neither word.
ClassifyUnknownOnNeither(llm) ==
    IF llm.err # NoErr THEN [intent |-> "", err |-> llm.err]
    ELSE LET ans == ToLower(TrimSpace(llm.content))
         IN  IF Contains(ans, intentQueryData) THEN [intent |-> intentQueryData, err |-> NoErr]
             ELSE IF Contains(ans, intentChat) THEN [intent |-> intentChat, err |-> NoErr]
             ELSE [intent |-> ans, err |-> NoErr]

\* classifyByLLM testing the answer for "chat" first.
ClassifyChatFirst(llm) ==
    IF llm.err # NoErr THEN [intent |-> "", err |-> llm.err]
    ELSE LET ans == ToLower(TrimSpace(llm.content))
         IN  IF Contains(ans, intentChat) THEN [intent |-> intentChat, err |-> NoErr]
             ELSE IF Contains(ans, intentQueryData) THEN [intent |-> intentQueryData, err |-> NoErr]
             ELSE [intent |-> intentChat, err |-> NoErr]

\* classifyIntent once the keyword rules have failed, from the LLM's result.
classifyByLLM(llm) ==
    IF llm.err # NoErr THEN [intent |-> "", err |-> llm.err]
    ELSE LET ans == ToLower(TrimSpace(llm.content))
         IN  IF Contains(ans, intentQueryData) THEN [intent |-> intentQueryData, err |-> NoErr]
             ELSE IF Contains(ans, intentChat) THEN [intent |-> intentChat, err |-> NoErr]
             ELSE [intent |-> intentChat, err |-> NoErr]

\* The fence of a code block; the model writes a backquote as ~.
Fence == "~~~"
FenceSQL == "~~~sql"

\* regexp (?s)```sql\s*(SELECT[\s\S]*?)``` matches text with "```sql" at i:
\* the capture's first and last index.
FencedAt(text, i) ==
    LET j == FirstNonSpace(text, i + Len(FenceSQL))
        k == IndexFrom(text, Fence, j + Len("SELECT"))
    IN  IF OccursAt(text, i, FenceSQL) /\ OccursAt(text, j, "SELECT") /\ k # 0
        THEN <<j, k - 1>> ELSE <<>>

\* The first line that, trimmed, begins with SELECT in any case, or <<>>.
RECURSIVE FirstSelectLine(_)
FirstSelectLine(lines) ==
    IF lines = <<>> THEN <<>>
    ELSE LET ln == TrimSpace(Head(lines))
         IN  IF HasPrefix(ToUpper(ln), "SELECT") THEN <<ln>> ELSE FirstSelectLine(Tail(lines))

extractSQL(text) ==
    LET starts == {i \in 1..Len(text) : FencedAt(text, i) # <<>>}
        line == FirstSelectLine(Split(text, "\n"))
    IN  IF starts # {}
        THEN LET m == FencedAt(text, CHOOSE i \in starts : \A j \in starts : i <= j)
             IN  TrimSpace(SubSeq(text, m[1], m[2]))
        ELSE IF line # <<>> THEN TrimRight(line[1], ";")
        ELSE TrimRight(text, ";")

selectCards == "SELECT id, title, board_id, fields, update_at FROM blocks WHERE type='card' AND delete_at=0 "
orderLimit == " ORDER BY update_at DESC LIMIT 50"

\* What generateSQL returns, and the texts it passed to validateReadOnlySQL.
SQLResult(sql, err, validated) == [sql |-> sql, err |-> err, validated |-> validated]

\* A branch's last lines without the call of validateReadOnlySQL.
ReturnUnvalidated(sqlText) == SQLResult(sqlText, NoErr, <<>>)

\* A branch's last lines with the validator's verdict ignored.
ReturnDespiteVerdict(sqlText) == SQLResult(sqlText, NoErr, <<sqlText>>)

\* The last lines of every branch of generateSQL: validate, then return the
\* statement, or the error and no statement.
ValidateAndReturn(sqlText) ==
    LET e == validateReadOnlySQL(sqlText)
    IN  IF e # NoErr THEN SQLResult("", e, <<sqlText>>) ELSE SQLResult(sqlText, NoErr, <<sqlText>>)

\* generateSQL with the my-tasks template alone.
TemplateMyTasksOnly(question) ==
    LET q == QToLower(QTrimSpace(question))
    IN  IF IsMyTasks(q) THEN "my" ELSE ""

\* The template generateSQL uses for the question: "" when none matches.
\* The templates tried in another order: the overdue test first.
TemplateOverdueFirst(question) ==
    LET q == QToLower(QTrimSpace(question))
    IN  IF IsOverdue(q) THEN "overdue"
        ELSE IF IsMyTasks(q) THEN "my"
        ELSE IF IsTodo(q) THEN "todo"
        ELSE IF IsDone(q) THEN "done"
        ELSE IF IsInProgress(q) THEN "progress"
        ELSE ""

TemplateOf(question) ==
    LET q == QToLower(QTrimSpace(question))
    IN  IF IsMyTasks(q) THEN "my"
        ELSE IF IsTodo(q) THEN "todo"
        ELSE IF IsDone(q) THEN "done"
        ELSE IF IsInProgress(q) THEN "progress"
        ELSE IF IsOverdue(q) THEN "overdue"
        ELSE ""

\* generateSQL after the catalog discovery; order is the iteration order of
\* the catalog's status map, llm the result of callQwenInternal when no
\* template matches.
generateSQL(userID, question, catalog, order, llm) ==
    LET t == TemplateOf(question)
        assigneeClause == buildAssigneeClause(userID, catalog)
    IN  IF t = "my" THEN ValidateAndReturn(selectCards \o assigneeClause \o orderLimit)
        ELSE IF t = "todo" THEN
            ValidateAndReturn(selectCards \o assigneeClause
                                \o buildStatusOpenClause(catalog, order) \o orderLimit)
        ELSE IF t = "done" THEN
            ValidateAndReturn(selectCards \o assigneeClause
                                \o buildStatusDoneClause(catalog, order) \o orderLimit)
        ELSE IF t = "progress" THEN
            ValidateAndReturn(selectCards \o assigneeClause
                                \o buildStatusProgressClause(catalog, order) \o orderLimit)
        ELSE IF t = "overdue" THEN
            ValidateAndReturn(selectCards \o assigneeClause
                                \o buildOverdueClause(catalog, order) \o orderLimit)
        ELSE IF llm.err # NoErr THEN SQLResult("", llm.err, <<>>)
        ELSE ValidateAndReturn(extractSQL(TrimSpace(llm.content)))

-----------------------------------------------------------------------------
(* The database file, as the sqlite3 driver answers the pipeline's         *)
(* statements.                                                             *)

\* A value of a card property in blocks.fields: a text (a user id, an option
\* id) or a list of texts (the users of a multi-person property).
PropText(t) == [text |-> t, list |-> {}]
PropList(l) == [text |-> "", list |-> l]
\* The value of a date property, the JSON text {"from":n}: n in epoch
\* milliseconds.
PropDate(n) == [from |-> n]

\* The value of strftime('%s','now')*1000 when the statement runs.
Now == 50

\* The rows of blocks a database file may hold.  fields is the stored JSON
\* text and props the properties it holds; nulls are the columns that hold
\* NULL.
BlockRows ==
    { [rowid |-> 1, id |-> "c1", board_id |-> "b1", title |-> "Write report", type |-> "card",
       fields |-> "{\"properties\":{\"p1\":\"u1\"}}", props |-> [p1 |-> PropText("u1")],
       update_at |-> 30, delete_at |-> 0, nulls |-> {}],
      [rowid |-> 2, id |-> "c2", board_id |-> "b1", title |-> "Fix <bug>", type |-> "card",
       fields |-> "{\"properties\":{\"p1\":\"u2\",\"m1\":[\"u2\"]}}",
       props |-> [p1 |-> PropText("u2"), m1 |-> PropList({"u2"})],
       update_at |-> 20, delete_at |-> 0, nulls |-> {}],
      [rowid |-> 3, id |-> "c3", board_id |-> "b1", title |-> "Old task", type |-> "card",
       fields |-> "{\"properties\":{\"p1\":\"u1\"}}", props |-> [p1 |-> PropText("u1")],
       update_at |-> 40, delete_at |-> 45, nulls |-> {}],
      [rowid |-> 4, id |-> "v1", board_id |-> "b1", title |-> "Board view", type |-> "view",
       fields |-> "{}", props |-> <<>>,
       update_at |-> 10, delete_at |-> 0, nulls |-> {}] }

MaxRows == 2

BlockTables == {t \in SUBSET BlockRows : Cardinality(t) <= MaxRows}

\* The rows of boards (those with delete_at=0), each with its card_properties
\* decoded, or malformed when that column holds no JSON list.
Prop(id, type, name, options) == [id |-> id, type |-> type, name |-> name, options |-> options]
Option(id, value) == [id |-> id, value |-> value]
Board(props) == [malformed |-> FALSE, card_properties |-> props, delete_at |-> 0]
MalformedBoard == [malformed |-> TRUE, card_properties |-> <<>>, delete_at |-> 0]
\* A board deleted at time 45.
DeletedBoard(props) == [malformed |-> FALSE, card_properties |-> props, delete_at |-> 45]

StatusProp == Prop("s1", "select", "Status",
                   <<Option("o1", "To Do"), Option("o2", "In Progress"), Option("o3", "Done")>>)

BoardTables ==
    { <<>>,
      <<Board(<<Prop("p1", "person", "Assignee", <<>>), StatusProp, Prop("d1", "date", "Due", <<>>)>>)>>,
      <<MalformedBoard,
        Board(<<Prop("p1", "person", "Owner", <<>>), Prop("m1", "multiPerson", "Team", <<>>),
                Prop("x1", "text", "Notes", <<>>)>>)>> }

\* The columns of blocks, in the order encoding/json writes the keys of a
\* row's map (sorted), and those that hold integers.
BlockColumns == <<"board_id", "delete_at", "fields", "id", "title", "type", "update_at">>
IntColumns == {"delete_at", "update_at"}

\* strings.Split at the occurrences of sep that are outside every pair of
\* parentheses: the way sqlite3's parser takes a WHERE clause apart at its
\* top-level AND and an OR group at its top-level OR.
Depth(s, k) ==
    Cardinality({i \in 1..(k - 1) : Char(s, i) = "("}) - Cardinality({i \in 1..(k - 1) : Char(s, i) = ")"})

TopHits(s, sep) == {k \in 1..(Len(s) - Len(sep) + 1) : OccursAt(s, k, sep) /\ Depth(s, k) = 0}

RECURSIVE CutAt(_, _, _, _)
CutAt(s, hits, from, n) ==
    LET later == {k \in hits : k >= from}
    IN  IF later = {} THEN <<SubSeq(s, from, Len(s))>>
        ELSE LET k == CHOOSE x \in later : \A y \in later : x <= y
             IN  <<SubSeq(s, from, k - 1)>> \o CutAt(s, hits, k + n, n)

SplitTop(s, sep) == CutAt(s, TopHits(s, sep), 1, Len(sep))

\* The forms of the conditions the templates write.
PersonHead == "json_extract(fields, '$.properties."
MultiHead == "EXISTS (SELECT 1 FROM json_each(json_extract(fields, '$.properties."
DateHead == "(json_extract(json_extract(fields, '$.properties."
DateMid == "'), '$.from') IS NOT NULL AND json_extract(json_extract(fields, '$.properties."
DateTail == "'), '$.from') < (strftime('%s','now')*1000))"

\* The ids of a list 'a','b' of quoted texts.
QuotedIDs(list) ==
    LET items == Split(list, ",")
    IN  {SubSeq(items[i], 2, Len(items[i]) - 1) : i \in 1..Len(items)}

\* One condition of an OR group, parsed: its kind, the property id, and the
\* user id or the option ids it names; <<>> for a form the model does not
\* evaluate.
ParsePart(part) ==
    IF HasPrefix(part, DateHead) /\ IndexFrom(part, DateMid, 1) # 0
            /\ OccursAt(part, Len(part) - Len(DateTail) + 1, DateTail)
        THEN LET k == IndexFrom(part, DateMid, 1)
             IN  <<"date", SubSeq(part, Len(DateHead) + 1, k - 1), {}>>
    ELSE IF HasPrefix(part, "(" \o PersonHead) /\ IndexFrom(part, "') NOT IN (", 1) # 0
            /\ IndexFrom(part, ") OR " \o PersonHead, 1) # 0
            /\ OccursAt(part, Len(part) - Len("') IS NULL)") + 1, "') IS NULL)")
        THEN LET k == IndexFrom(part, "') NOT IN (", 1)
                 e == IndexFrom(part, ") OR " \o PersonHead, 1)
             IN  <<"open", SubSeq(part, Len(PersonHead) + 2, k - 1),
                   QuotedIDs(SubSeq(part, k + Len("') NOT IN ("), e - 1))>>
    ELSE IF HasPrefix(part, "(" \o PersonHead)
            /\ OccursAt(part, Len(part) - Len("') IS NULL)") + 1, "') IS NULL)")
            /\ IndexFrom(part, "') IS NULL)", 1) = Len(part) - Len("') IS NULL)") + 1
        THEN <<"open", SubSeq(part, Len(PersonHead) + 2, Len(part) - Len("') IS NULL)")), {}>>
    ELSE IF HasPrefix(part, PersonHead) /\ IndexFrom(part, "') IN (", 1) # 0
            /\ Char(part, Len(part)) = ")"
        THEN LET k == IndexFrom(part, "') IN (", 1)
             IN  <<"in", SubSeq(part, Len(PersonHead) + 1, k - 1),
                   QuotedIDs(SubSeq(part, k + Len("') IN ("), Len(part) - 1))>>
    ELSE IF HasPrefix(part, PersonHead) /\ IndexFrom(part, "') = '", 1) # 0
            /\ Char(part, Len(part)) = "'"
        THEN LET k == IndexFrom(part, "') = '", 1)
             IN  <<"person", SubSeq(part, Len(PersonHead) + 1, k - 1),
                   SubSeq(part, k + Len("') = '"), Len(part) - 1)>>
    ELSE IF HasPrefix(part, MultiHead) /\ IndexFrom(part, "')) WHERE value = '", 1) # 0
            /\ OccursAt(part, Len(part) - 1, "')")
        THEN LET k == IndexFrom(part, "')) WHERE value = '", 1)
             IN  <<"multi", SubSeq(part, Len(MultiHead) + 1, k - 1),
                   SubSeq(part, k + Len("')) WHERE value = '"), Len(part) - 2)>>
    ELSE <<>>

\* json_extract(fields, '$.properties.<id>') of a row is NULL when the card
\* has no value for the property.  A comparison with NULL selects nothing.
HasProp(row, id) == id \in DOMAIN row.props
TextOf(row, id) == IF "text" \in DOMAIN row.props[id] THEN row.props[id].text ELSE ""

PartHolds(p, row) ==
    IF p[1] = "person" THEN HasProp(row, p[2]) /\ "text" \in DOMAIN row.props[p[2]] /\ TextOf(row, p[2]) = p[3]
    ELSE IF p[1] = "multi" THEN HasProp(row, p[2]) /\ "list" \in DOMAIN row.props[p[2]] /\ p[3] \in row.props[p[2]].list
    ELSE IF p[1] = "open" THEN ~HasProp(row, p[2]) \/ (p[3] # {} /\ TextOf(row, p[2]) \notin p[3])
    ELSE IF p[1] = "in" THEN HasProp(row, p[2]) /\ TextOf(row, p[2]) \in p[3]
    ELSE /\ HasProp(row, p[2]) /\ "from" \in DOMAIN row.props[p[2]]
         /\ row.props[p[2]].from < Now

\* One conjunct of a WHERE clause, parsed: the test of the type, the test of
\* delete_at, or an OR group of conditions; <<>> for a form the model does
\* not evaluate.
ParseConjunct(c) ==
    IF c = "type='card'" THEN <<"type">>
    ELSE IF c \in {"delete_at=0", "delete_at = 0"} THEN <<"live">>
    ELSE IF Len(c) > 2 /\ Char(c, 1) = "(" /\ Char(c, Len(c)) = ")"
        THEN LET parts == SplitTop(SubSeq(c, 2, Len(c) - 1), " OR ")
                 parsed == [i \in 1..Len(parts) |-> ParsePart(parts[i])]
             IN  IF \E i \in 1..Len(parts) : parsed[i] = <<>> THEN <<>> ELSE <<"any", parsed>>
    ELSE IF ParsePart(c) # <<>> THEN <<"any", <<ParsePart(c)>>>>
    ELSE <<>>

\* Whether a row passes a parsed conjunct.
ConjunctOn(t, row) ==
    IF t[1] = "type" THEN row.type = "card"
    ELSE IF t[1] = "live" THEN row.delete_at = 0
    ELSE \E i \in 1..Len(t[2]) : PartHolds(t[2][i], row)

\* A statement as sqlite3's tokenizer sees it: a line break is white space.
RECURSIVE FlatText(_, _, _)
FlatText(s, lo, hi) ==
    IF lo > hi THEN ""
    ELSE IF lo = hi THEN (IF Char(s, lo) = "\n" THEN " " ELSE SubSeq(s, lo, lo))
    ELSE LET mid == (lo + hi) \div 2
         IN  FlatText(s, lo, mid) \o FlatText(s, mid + 1, hi)

Flat(s) == IF \E i \in 1..Len(s) : Char(s, i) = "\n" THEN FlatText(s, 1, Len(s)) ELSE s

\* A SELECT on blocks taken apart: its column list and the conjuncts of its
\* WHERE clause; ok is FALSE for a text sqlite3 rejects (here: no SELECT ...
\* FROM blocks, or an unknown column).  sqlite3 reads keywords and the
\* table's name in any case.
ParseSelect(text) ==
    LET sql == Flat(text)
        up == ToUpper(sql)
        from == IndexFrom(up, " FROM BLOCKS", 1)
        where == IndexFrom(up, " WHERE ", 1)
        order == IndexFrom(up, " ORDER BY ", 1)
        limit == IndexFrom(up, " LIMIT ", 1)
        tailAt == IF order # 0 THEN order ELSE IF limit # 0 THEN limit ELSE Len(sql) + 1
        list == IF from = 0 THEN "" ELSE SubSeq(sql, Len("SELECT ") + 1, from - 1)
        cols == IF list = "*" THEN BlockColumns ELSE Split(list, ", ")
        conj == IF where = 0 THEN <<>>
                ELSE LET raw == SplitTop(SubSeq(sql, where + Len(" WHERE "), tailAt - 1), " AND ")
                     IN  [i \in 1..Len(raw) |-> TrimSpace(raw[i])]
    IN  [ok |-> HasPrefix(up, "SELECT ") /\ from # 0
                  /\ \A i \in 1..Len(cols) : \E j \in 1..Len(BlockColumns) : cols[i] = BlockColumns[j],
         cols |-> cols, conj |-> conj, tests |-> [i \in 1..Len(conj) |-> ParseConjunct(conj[i])],
         newestFirst |-> order # 0 /\ OccursAt(sql, order, " ORDER BY update_at DESC"),
         limit50 |-> limit # 0 /\ OccursAt(sql, limit, " LIMIT 50")]

\* The rows every conjunct of known form admits.
Admitted(sel, table) ==
    {r \in table : \A i \in 1..Len(sel.tests) :
        sel.tests[i] = <<>> \/ ConjunctOn(sel.tests[i], r)}

\* The row sets sqlite3 may answer with: the admitted rows when every
\* conjunct has a known form, and otherwise any of their subsets, a conjunct
\* of a form the model does not evaluate (a status or date test) removing
\* rows the model cannot tell.
Answers(sel, table) ==
    IF \A i \in 1..Len(sel.tests) : sel.tests[i] # <<>>
    THEN {Admitted(sel, table)}
    ELSE SUBSET Admitted(sel, table)

\* A set of rows in the statement's order: newest update first, or by rowid.
RECURSIVE Sorted(_, _)
Sorted(rows, newestFirst) ==
    IF rows = {} THEN <<>>
    ELSE LET first == CHOOSE r \in rows : \A o \in rows :
                        IF newestFirst THEN r.update_at >= o.update_at ELSE r.rowid <= o.rowid
         IN  <<first>> \o Sorted(rows \ {first}, newestFirst)

\* encoding/json: a string value, with the escapes of json.Marshal.
JSONEscapeChar(c) ==
    IF c = "\"" THEN "\\\""
    ELSE IF c = "\\" THEN "\\\\"
    ELSE IF c = "\n" THEN "\\n"
    ELSE IF c = "<" THEN "\\u003c"
    ELSE IF c = ">" THEN "\\u003e"
    ELSE IF c = "&" THEN "\\u0026"
    ELSE c

RECURSIVE JSONEscape(_, _, _)
JSONEscape(s, lo, hi) ==
    IF lo > hi THEN ""
    ELSE IF lo = hi THEN JSONEscapeChar(Char(s, lo))
    ELSE LET mid == (lo + hi) \div 2 IN JSONEscape(s, lo, mid) \o JSONEscape(s, mid + 1, hi)

JSONString(s) == "\"" \o JSONEscape(s, 1, Len(s)) \o "\""

\* One row as the JSON object of its selected columns, keys sorted.
\* A row's map with every integer written as a text.
RowJSONNumbersAsText(row, cols) ==
    LET keys == SelectSeq(BlockColumns, LAMBDA k : \E i \in 1..Len(cols) : cols[i] = k)
        member(k) == JSONString(k) \o ":" \o
                        (IF k \in row.nulls THEN "null"
                         ELSE IF k \in IntColumns THEN JSONString(Itoa(row[k])) ELSE JSONString(row[k]))
    IN  "{" \o Join([i \in 1..Len(keys) |-> member(keys[i])], ",") \o "}"

RowJSON(row, cols) ==
    LET keys == SelectSeq(BlockColumns, LAMBDA k : \E i \in 1..Len(cols) : cols[i] = k)
        member(k) == JSONString(k) \o ":" \o
                        (IF k \in row.nulls THEN "null"
                         ELSE IF k \in IntColumns THEN Itoa(row[k]) ELSE JSONString(row[k]))
    IN  "{" \o Join([i \in 1..Len(keys) |-> member(keys[i])], ",") \o "}"

\* json.Marshal of the result slice.
MarshalRows(rows, cols) ==
    "[" \o Join([i \in 1..Len(rows) |-> RowJSON(rows[i], cols)], ",") \o "]"

First50(rows) == IF Len(rows) > 50 THEN SubSeq(rows, 1, 50) ELSE rows

\* The calls of database/sql that discoverPropertyCatalog and executeQuery
\* make, each with the error it returned: sql.Open; db.Query; and, by the
\* deferred calls, rows.Close and db.Close in that order when the function
\* returns.  e is the error of the call that fails, if one does.
Call(op, err) == [op |-> op, err |-> err]

\* The deferred db.Close left out of the path on which db.Query fails.
DriverCallsLeakOnQueryError(failing, e) ==
    IF failing = "sql.Open" THEN <<Call("sql.Open", e)>>
    ELSE IF failing = "db.Query"
        THEN <<Call("sql.Open", NoErr), Call("db.Query", e)>>
    ELSE IF failing = "rows.Scan"
        THEN <<Call("sql.Open", NoErr), Call("db.Query", NoErr), Call("rows.Scan", e),
               Call("rows.Close", NoErr), Call("db.Close", NoErr)>>
    ELSE <<Call("sql.Open", NoErr), Call("db.Query", NoErr), Call("rows.Close", NoErr),
           Call("db.Close", NoErr)>>

\* The calls of database/sql on one path through discoverPropertyCatalog or
\* executeQuery: failing is the call that returns the error e, "" on the
\* path without error.  The deferred rows.Close and db.Close run, in that
\* order, when the function returns.
DriverCalls(failing, e) ==
    IF failing = "sql.Open" THEN <<Call("sql.Open", e)>>
    ELSE IF failing = "db.Query"
        THEN <<Call("sql.Open", NoErr), Call("db.Query", e), Call("db.Close", NoErr)>>
    ELSE IF failing = "rows.Scan"
        THEN <<Call("sql.Open", NoErr), Call("db.Query", NoErr), Call("rows.Scan", e),
               Call("rows.Close", NoErr), Call("db.Close", NoErr)>>
    ELSE <<Call("sql.Open", NoErr), Call("db.Query", NoErr), Call("rows.Close", NoErr),
           Call("db.Close", NoErr)>>

\* What executeQuery returns: the JSON text and the error; rowids names the
\* rows of blocks behind the text; calls lists the calls of database/sql
\* made on the way.
QueryResult(json, err, rowids, calls) ==
    [json |-> json, err |-> err, rowids |-> rowids, calls |-> calls]

\* What the driver does with the statement once the engine test has passed.
\* outcome: how the file behaves: "ok", or sql.Open, db.Query or the
\* rows.Scan of the first row failing for a reason of its own ("open",
\* "query", "scan"); answer: the rows sqlite3 selects.
RunSelect(sel, outcome, answer) ==
    LET rows == IF sel.limit50 THEN First50(Sorted(answer, sel.newestFirst))
                ELSE Sorted(answer, sel.newestFirst)
    IN  IF outcome = "open"
            THEN QueryResult("", Err("sql", "unable to open database file"), <<>>,
                             DriverCalls("sql.Open", Err("sql", "unable to open database file")))
        ELSE IF outcome = "query"
            THEN QueryResult("", Err("sql", "database is locked"), <<>>,
                             DriverCalls("db.Query", Err("sql", "database is locked")))
        ELSE IF ~sel.ok
            THEN QueryResult("", Err("sql", "SQL logic error"), <<>>,
                             DriverCalls("db.Query", Err("sql", "SQL logic error")))
        ELSE IF outcome = "scan" /\ Len(rows) > 0
            THEN QueryResult("", Err("sql", "interrupted"), <<>>,
                             DriverCalls("rows.Scan", Err("sql", "interrupted")))
        ELSE QueryResult(MarshalRows(rows, sel.cols), NoErr,
                         [i \in 1..Len(rows) |-> rows[i].rowid], DriverCalls("", NoErr))

RunQuery(query, outcome, answer) == RunSelect(ParseSelect(query), outcome, answer)

\* executeQuery without the test of the configured engine.
ExecuteOnAnyEngine(query, dbType, outcome, answer) == RunQuery(query, outcome, answer)

executeQuery(query, dbType, outcome, answer) ==
    IF ToLower(dbType) # "sqlite3" THEN QueryResult("", Err("ErrUnsupportedDBType", ""), <<>>, <<>>)
    ELSE RunQuery(query, outcome, answer)

\* The row sets the file may answer query with.
AnswersIfValid(sel, table) == IF sel.ok THEN Answers(sel, table) ELSE {{}}

QueryAnswers(query, table) == AnswersIfValid(ParseSelect(query), table)

fallbackSQL == "SELECT id, title, board_id, fields, update_at FROM blocks WHERE type='card' AND delete_at=0 ORDER BY update_at DESC LIMIT 50"

\* buildFinalPrompt; the fixed Chinese preamble is rendered in English.
\* buildFinalPrompt writing at most 64 characters of the data.
PromptWithDataCut(question, contextData) ==
    "You are a Focal Board task assistant. From the live JSON data I give you, write a short, friendly, readable summary of the user's tasks in Chinese.\n\n"
    \o "[Important rules]:\n"
    \o "1. Do **not** repeat or print the raw JSON data.\n"
    \o "2. Start your summary **directly** (for example: 'Hello! According to your tasks...').\n"
    \o "3. Use emoji to organise your answer.\n"
    \o "4. If the data holds overdue tasks, point them out.\n\n"
    \o "User question: \"" \o QText(question)
    \o "\"\n\nLive data (JSON):\n"
    \o (IF Len(contextData) > 64 THEN SubSeq(contextData, 1, 64) ELSE contextData)
    \o "\n\nYour answer (start the summary directly):\n"

buildFinalPrompt(question, contextData) ==
    "You are a Focal Board task assistant. From the live JSON data I give you, write a short, friendly, readable summary of the user's tasks in Chinese.\n\n"
    \o "[Important rules]:\n"
    \o "1. Do **not** repeat or print the raw JSON data.\n"
    \o "2. Start your summary **directly** (for example: 'Hello! According to your tasks...').\n"
    \o "3. Use emoji to organise your answer.\n"
    \o "4. If the data holds overdue tasks, point them out.\n\n"
    \o "User question: \"" \o QText(question)
    \o "\"\n\nLive data (JSON):\n" \o contextData
    \o "\n\nYour answer (start the summary directly):\n"

-----------------------------------------------------------------------------
(* PrepareRAGResponse, one call, step by step (SpecRAG).                   *)

\* The questions asked.  Of the Chinese ones: "query my tasks", "to-do
\* tasks", "completed tasks", "tasks in progress", "overdue tasks", and
\* "query tasks", which no template of generateSQL matches; the last is "my
\* tasks" between quotation marks, followed by <, & and a line break.
Questions ==
    { kwChaxunWodeRenwu,
      <<"dai1", "ban", "ren", "wu">>,
      <<"yi", "wan", "cheng", "de", "ren", "wu">>,
      <<"jin", "xing", "zhong", "de", "ren", "wu">>,
      <<"yu", "qi", "ren", "wu">>,
      <<"cha", "xun", "ren", "wu">>,
      <<"H", "i">>,
      <<" ", "\"", "wo", "de", "ren", "wu", "\"", "<", "&", "\n">> }

UserIDs == {"u1"}
APIKeys == {"", "sk-key"}
DBTypes == {"sqlite3", "SQLite3", "postgres"}

\* What the LLM may answer the classifier's prompt with.
ClassifyAnswers == {"query_data", " Chat\n", "maybe", "Chat or QUERY_DATA", ""}

\* What the LLM may answer the Text-to-SQL prompt with.
SQLAnswers ==
    { "SELECT id, title FROM blocks WHERE type='card'",
      "SELECT id, title, update_at FROM blocks WHERE type='card' AND delete_at=0 AND json_extract(fields, '$.properties.p1') = 'u2'",
      "~~~sql\nSELECT id, title FROM blocks WHERE type='card' AND delete_at=0;\n~~~",
      "SELECT id FROM blocks; DROP TABLE boards",
      "SELECT nothing",
      "Sorry, I cannot help with that." }

\* How the database file behaves in one use of it.
DBOutcomes == {"ok", "open", "query", "scan"}

\* discoverPropertyCatalog: the catalog of the boards, or nil and an error.
\* discoverPropertyCatalog returning what it read together with its error.
\* The rows discoverSQL selects.
LiveBoards(boardRows) == SelectSeq(boardRows, LAMBDA b : b.delete_at = 0)

DiscoverKeepsCatalogOnError(boardRows, outcome) ==
    [cat |-> CatalogOf(EmptyCatalog, LiveBoards(boardRows)),
     err |-> IF outcome = "ok" THEN NoErr ELSE Err("sql", "database is locked"),
     calls |-> IF outcome = "ok" THEN DriverCalls("", NoErr)
               ELSE DriverCalls("db.Query", Err("sql", "database is locked"))]

\* discoverPropertyCatalog taking a board with malformed JSON for a failure.
DiscoverFailsOnMalformedBoard(boardRows, outcome) ==
    IF outcome = "open"
        THEN [cat |-> NilCatalog, err |-> Err("sql", "unable to open database file"),
              calls |-> DriverCalls("sql.Open", Err("sql", "unable to open database file"))]
    ELSE IF outcome = "query"
        THEN [cat |-> NilCatalog, err |-> Err("sql", "database is locked"),
              calls |-> DriverCalls("db.Query", Err("sql", "database is locked"))]
    ELSE IF outcome = "scan" /\ Len(LiveBoards(boardRows)) > 0
        THEN [cat |-> NilCatalog, err |-> Err("sql", "interrupted"),
              calls |-> DriverCalls("rows.Scan", Err("sql", "interrupted"))]
    ELSE IF \E i \in 1..Len(boardRows) : boardRows[i].malformed
        THEN [cat |-> NilCatalog, err |-> Err("json", "invalid character"), calls |-> DriverCalls("", NoErr)]
    ELSE [cat |-> CatalogOf(EmptyCatalog, LiveBoards(boardRows)), err |-> NoErr,
          calls |-> DriverCalls("", NoErr)]

discoverSQL == "SELECT id, card_properties FROM boards WHERE delete_at=0"

discoverPropertyCatalog(boardRows, outcome) ==
    IF outcome = "open"
        THEN [cat |-> NilCatalog, err |-> Err("sql", "unable to open database file"),
              calls |-> DriverCalls("sql.Open", Err("sql", "unable to open database file"))]
    ELSE IF outcome = "query"
        THEN [cat |-> NilCatalog, err |-> Err("sql", "database is locked"),
              calls |-> DriverCalls("db.Query", Err("sql", "database is locked"))]
    ELSE IF outcome = "scan" /\ Len(LiveBoards(boardRows)) > 0
        THEN [cat |-> NilCatalog, err |-> Err("sql", "interrupted"),
              calls |-> DriverCalls("rows.Scan", Err("sql", "interrupted"))]
    ELSE [cat |-> CatalogOf(EmptyCatalog, LiveBoards(boardRows)), err |-> NoErr, calls |-> DriverCalls("", NoErr)]

\* The results of the LLM call a step makes, or no result when the step
\* makes none.
LLMCall(called, key, contents) ==
    IF called THEN callQwenInternal(key, contents) ELSE {LLMResult(NoErr, "", FALSE)}

\* An entry of ragLog: a call of callQwenInternal by the classifier or by the
\* synthesizer ("llm.classify", "llm.sql") and the HTTP request it sent
\* ("http"); a call of discoverPropertyCatalog ("discover"), of
\* validateReadOnlySQL ("validate"), of executeQuery ("exec"), the last two
\* preceded by the calls of database/sql they made ("sql.Open", "db.Query",
\* "rows.Close", "db.Close").
\* sql is the statement concerned, err the error the call returned, ok that
\* it returned none, json the text it returned.
Event(op, sql, err, json) == [op |-> op, sql |-> sql, ok |-> err = NoErr, err |-> err, json |-> json]

LLMEvents(op, llm) ==
    (IF llm.sent THEN <<Event("http", "", NoErr, "")>> ELSE <<>>)
        \o <<Event(op, "", llm.err, llm.content)>>
DriverEvents(query, calls) ==
    [i \in 1..Len(calls) |-> Event(calls[i].op, query, calls[i].err, "")]
DiscoverEvent(d) == Event("discover", "", d.err, "")
ValidateEvents(texts) ==
    [i \in 1..Len(texts) |-> Event("validate", texts[i], validateReadOnlySQL(texts[i]), "")]
ExecEvents(query, res) ==
    DriverEvents(query, res.calls) \o <<Event("exec", query, res.err, res.json)>>

Return(prompt, err) == [prompt |-> prompt, err |-> err]

\* Where PrepareRAGResponse goes after a step and what it returns when it
\* returns there.
Step(pc, ret) == [pc |-> pc, ret |-> ret]

RagInit ==
    /\ ragPc = "classify"
    /\ ragQuestion \in Questions
    /\ ragUserID \in UserIDs
    /\ envAPIKey \in APIKeys
    /\ cfgDBType \in DBTypes
    /\ boards \in BoardTables
    /\ blocks \in BlockTables
    /\ intent = ""
    /\ ragCatalog = [nil |-> TRUE]
    /\ ragSQLText = ""
    /\ contextJSON = ""
    /\ contextRows = <<>>
    /\ ragResult = Return("", NoErr)
    /\ ragLog = <<>>
    /\ ValIdle
    /\ RelayIdle
    /\ PairIdle
    /\ ModIdle
    /\ CrtIdle
    /\ SendIdle

\* classifyIntent asking the LLM about every question.
ClassifyAlwaysByLLM(question, llm) ==
    [intent |-> classifyByLLM(llm).intent, err |-> classifyByLLM(llm).err, called |-> TRUE]

\* classifyIntent; llm is the result of the call of callQwenInternal it makes
\* when no keyword rule holds, called whether it makes that call.
classifyIntent(question, llm) ==
    IF ClassifiedByKeyword(question)
    THEN [intent |-> intentQueryData, err |-> NoErr, called |-> FALSE]
    ELSE [intent |-> classifyByLLM(llm).intent, err |-> classifyByLLM(llm).err, called |-> TRUE]

\* The classifier's error taken for the chat intent.
ClassifyErrorDefaultsToChat(c) ==
    IF c.err # NoErr \/ c.intent = intentChat THEN Step("done", Return("", Err("ErrIntentIsChat", "")))
    ELSE IF c.intent # intentQueryData THEN Step("done", Return("", Err("ErrUnknownIntent", "")))
    ELSE Step("generate", Return("", NoErr))

\* The chat intent going on to the synthesis.
ChatIntentContinues(c) ==
    IF c.err # NoErr THEN Step("done", Return("", c.err))
    ELSE Step("generate", Return("", NoErr))

\* The tests of classifyIntent's result.
AfterClassify(c) ==
    IF c.err # NoErr THEN Step("done", Return("", c.err))
    ELSE IF c.intent = intentChat THEN Step("done", Return("", Err("ErrIntentIsChat", "")))
    ELSE IF c.intent # intentQueryData THEN Step("done", Return("", Err("ErrUnknownIntent", "")))
    ELSE Step("generate", Return("", NoErr))

\* Step 1: classifyIntent and the tests of its result.
RagClassify ==
    /\ ragPc = "classify"
    /\ \E llm \in LLMCall(classifyIntent(ragQuestion, LLMResult(NoErr, "", FALSE)).called,
                          envAPIKey, ClassifyAnswers) :
        LET c == classifyIntent(ragQuestion, llm)
            next == AfterClassify(c)
        IN  /\ intent' = c.intent
            /\ ragLog' = ragLog \o (IF c.called THEN LLMEvents("llm.classify", llm) ELSE <<>>)
            /\ ragPc' = next.pc
            /\ ragResult' = next.ret
    /\ UNCHANGED <<ragQuestion, ragUserID, envAPIKey, cfgDBType, boards, blocks, ragCatalog, ragSQLText,
                   contextJSON, contextRows, notRag>>

\* The test of generateSQL's result.
AfterGenerate(r) ==
    IF r.err # NoErr THEN Step("done", Return("", r.err)) ELSE Step("execute", Return("", NoErr))

\* Step 2: generateSQL.
Generate(answers) ==
    /\ ragPc = "generate"
    /\ \E d \in DBOutcomes, llm \in LLMCall(TemplateOf(ragQuestion) = "", envAPIKey, answers) :
        \E disc \in {discoverPropertyCatalog(boards, d)}, byLLM \in {TemplateOf(ragQuestion) = ""} :
        \E order \in StatusOrders(disc.cat) :
        \E r \in {generateSQL(ragUserID, ragQuestion, disc.cat, order, llm)} :
            LET next == AfterGenerate(r)
            IN  /\ ragSQLText' = r.sql
                /\ ragCatalog' = disc.cat
                /\ ragLog' = ragLog \o DriverEvents(discoverSQL, disc.calls) \o <<DiscoverEvent(disc)>>
                                    \o (IF byLLM THEN LLMEvents("llm.sql", llm) ELSE <<>>)
                                    \o ValidateEvents(r.validated)
                /\ ragPc' = next.pc
                /\ ragResult' = next.ret
    /\ UNCHANGED <<ragQuestion, ragUserID, envAPIKey, cfgDBType, boards, blocks, intent, contextJSON,
                   contextRows, notRag>>

RagGenerate == Generate(SQLAnswers)

\* executeQuery's failure answered by running the statement again.
RetryOnQueryError(res) ==
    IF res.err # NoErr THEN Step("execute", Return("", NoErr))
    ELSE IF TrimSpace(res.json) = "[]" THEN Step("fallback", Return("", NoErr))
    ELSE Step("prompt", Return("", NoErr))

\* executeQuery's failure answered by the fallback statement.
FallbackOnQueryError(res) ==
    IF res.err # NoErr THEN Step("fallback", Return("", NoErr))
    ELSE IF TrimSpace(res.json) = "[]" THEN Step("fallback", Return("", NoErr))
    ELSE Step("prompt", Return("", NoErr))

\* The tests of executeQuery's result on the generated statement.
AfterExecute(res) ==
    IF res.err # NoErr THEN Step("done", Return("", res.err))
    ELSE IF TrimSpace(res.json) = "[]" THEN Step("fallback", Return("", NoErr))
    ELSE Step("prompt", Return("", NoErr))

\* Step 3: executeQuery on the generated statement.
RagExecute ==
    /\ ragPc = "execute"
    /\ \E d \in DBOutcomes, answer \in QueryAnswers(ragSQLText, blocks) :
        \E res \in {executeQuery(ragSQLText, cfgDBType, d, answer)} :
            /\ contextJSON' = res.json
            /\ contextRows' = res.rowids
            /\ ragLog' = ragLog \o ExecEvents(ragSQLText, res)
            /\ ragPc' = AfterExecute(res).pc
            /\ ragResult' = AfterExecute(res).ret
    /\ UNCHANGED <<ragQuestion, ragUserID, envAPIKey, cfgDBType, boards, blocks, intent, ragCatalog,
                   ragSQLText, notRag>>

\* The fallback's result dropped: the primary result is kept.
FallbackDropped(primaryJSON, primaryRows, fb) ==
    [json |-> primaryJSON, rowids |-> primaryRows, err |-> NoErr]

\* The fallback's failure returned to the caller.
FallbackFailurePropagated(primaryJSON, primaryRows, fb) ==
    IF fb.err = NoErr THEN [json |-> fb.json, rowids |-> fb.rowids, err |-> NoErr]
    ELSE [json |-> "", rowids |-> <<>>, err |-> fb.err]

\* What the fallback's result makes of the context: the fallback's rows when
\* it succeeded, the primary result when it failed; no error either way.
AfterFallback(primaryJSON, primaryRows, fb) ==
    IF fb.err = NoErr THEN [json |-> fb.json, rowids |-> fb.rowids, err |-> NoErr]
    ELSE [json |-> primaryJSON, rowids |-> primaryRows, err |-> NoErr]

\* The empty primary result: executeQuery on the fallback statement.
RagFallback ==
    /\ ragPc = "fallback"
    /\ \E d \in DBOutcomes, answer \in QueryAnswers(fallbackSQL, blocks) :
        \E fb \in {executeQuery(fallbackSQL, cfgDBType, d, answer)} :
        \E ctx \in {AfterFallback(contextJSON, contextRows, fb)} :
            /\ contextJSON' = ctx.json
            /\ contextRows' = ctx.rowids
            /\ ragLog' = ragLog \o ExecEvents(fallbackSQL, fb)
            /\ IF ctx.err # NoErr THEN ragPc' = "done" /\ ragResult' = Return("", ctx.err)
               ELSE ragPc' = "prompt" /\ ragResult' = ragResult
    /\ UNCHANGED <<ragQuestion, ragUserID, envAPIKey, cfgDBType, boards, blocks, intent, ragCatalog,
                   ragSQLText, notRag>>

\* Step 4: buildFinalPrompt and the return.
RagReturn ==
    /\ ragPc = "prompt"
    /\ ragPc' = "done"
    /\ ragResult' = Return(buildFinalPrompt(ragQuestion, contextJSON), NoErr)
    /\ UNCHANGED <<ragQuestion, ragUserID, envAPIKey, cfgDBType, boards, blocks, intent, ragCatalog,
                   ragSQLText, contextJSON, contextRows, ragLog, notRag>>

RagNext ==
    \/ RagClassify
    \/ RagGenerate
    \/ RagExecute
    \/ RagFallback
    \/ RagReturn

SpecRAG == RagInit /\ [][RagNext]_vars

-----------------------------------------------------------------------------
(* Step 1 of PrepareRAGResponse alone, over more questions (SpecClassify). *)

\* The keywords of the classifier and of the templates of generateSQL, and
\* what may follow one in a question: nothing, "tasks", "of mine".
QuestionKeywords ==
    { kwChaxunWodeRenwu, kwWodeRenwu, kwRenwu, kwWo, kwChaxun, kwDaiban, kwDaiban2,
      kwJinxingzhong, kwWeiwancheng, kwWancheng, kwYiwancheng, kwYuqi, kwGuoqi, kwJiezhi,
      kwDaoqi, kwGuoleJiezhiRiqi, kwJiezhiRiqiYiguo, kwYiguoqi, <<"H", "i">>, <<>> }
QuestionEndings == { <<>>, kwRenwu, <<" ", "w", "o", " ">>, <<"de", "ren", "wu", "?", " ">> }

ClassifyQuestions == {k \o e : k \in QuestionKeywords, e \in QuestionEndings}

ClassifyInit ==
    /\ ragPc = "classify"
    /\ ragQuestion \in ClassifyQuestions
    /\ ragUserID \in UserIDs
    /\ envAPIKey \in APIKeys
    /\ cfgDBType = "sqlite3"
    /\ boards = <<>>
    /\ blocks = {}
    /\ intent = ""
    /\ ragCatalog = [nil |-> TRUE]
    /\ ragSQLText = ""
    /\ contextJSON = ""
    /\ contextRows = <<>>
    /\ ragResult = Return("", NoErr)
    /\ ragLog = <<>>
    /\ ValIdle
    /\ RelayIdle
    /\ PairIdle
    /\ ModIdle
    /\ CrtIdle
    /\ SendIdle

ClassifyNext == RagClassify

SpecClassify == ClassifyInit /\ [][ClassifyNext]_vars

-----------------------------------------------------------------------------
(* generateSQL and executeQuery on boards with several kinds of property   *)
(* definitions and cards that carry status and date values (SpecGenerate). *)

\* Questions that match one template, several templates, or none.  Of the
\* Chinese ones: "query my tasks", "my overdue tasks", "not completed",
\* "to-do, completed", "completed, in progress", "in progress, overdue",
\* "overdue tasks", " expired " and "query tasks".
GenQuestions ==
    { kwChaxunWodeRenwu,
      <<"wo", "de", "yu", "qi", "ren", "wu">>,
      <<"wei", "wan", "cheng">>,
      <<"dai2", "ban", "yi", "wan", "cheng">>,
      <<"yi", "wan", "cheng", "jin", "xing", "zhong">>,
      <<"jin", "xing", "zhong", "yu", "qi">>,
      <<"yu", "qi", "ren", "wu">>,
      <<" ", "guo", "qi", " ">>,
      <<"cha", "xun", "ren", "wu">> }

GenUserIDs == {"u1", "u2"}

\* A status property of a second board, with Chinese option labels: "to
\* do", "in progress", "completed".
StatusProp2 == Prop("s2", "select", "{zhuang}{tai}",
                    <<Option("o4", "{dai1}{ban}"), Option("o5", "{jin}{xing}{zhong}"),
                      Option("o6", "{wan}{cheng}")>>)

\* The rows of boards: one board; two boards, each with its own status and
\* date property; a malformed board and a board whose definitions are
\* partly unusable; a board without a status property beside a deleted
\* board; a board without a date property.
GenBoardTables ==
    { <<Board(<<Prop("p1", "person", "Assignee", <<>>), StatusProp, Prop("d1", "date", "Due", <<>>)>>)>>,
      <<Board(<<Prop("p1", "person", "Assignee", <<>>), StatusProp, Prop("d1", "date", "Due", <<>>)>>),
        Board(<<Prop("m1", "multiPerson", "Team", <<>>), StatusProp2, Prop("d2", "date", "Due", <<>>)>>)>>,
      <<MalformedBoard,
        Board(<<Prop("p1", "person", "Owner", <<>>), Prop("p2", "person", "Reviewer", <<>>),
                Prop("", "person", "Nobody", <<>>), Prop("m1", "multiPerson", "Team", <<>>),
                Prop("s3", "select", "Priority", <<Option("o7", "Done")>>),
                Prop("s4", "select", "status", <<>>),
                Prop("s5", "multiSelect", "STATUS",
                     <<Option("o8", "done"), Option("", "To Do"), Option("o9", "")>>),
                Prop("x1", "text", "Notes", <<>>), Prop("d1", "date", "Due", <<>>)>>)>>,
      <<Board(<<Prop("p1", "person", "Assignee", <<>>), Prop("d1", "date", "Due", <<>>)>>),
        DeletedBoard(<<Prop("p9", "person", "Owner", <<>>), StatusProp2, Prop("d9", "date", "Due", <<>>)>>)>>,
      <<Board(<<Prop("p1", "person", "Assignee", <<>>), StatusProp>>)>> }

\* Cards: done and overdue; open and overdue; in progress, due later and
\* with NULL for its title; a card of the second board, done and overdue; a
\* deleted card.
GenBlockRows ==
    { [rowid |-> 1, id |-> "k1", board_id |-> "b1", title |-> "Ship it", type |-> "card",
       fields |-> "{\"properties\":{\"p1\":\"u1\",\"s1\":\"o3\",\"d1\":\"{\\\"from\\\":40}\"}}",
       props |-> [p1 |-> PropText("u1"), s1 |-> PropText("o3"), d1 |-> PropDate(40)],
       update_at |-> 30, delete_at |-> 0, nulls |-> {}],
      [rowid |-> 2, id |-> "k2", board_id |-> "b1", title |-> "Plan", type |-> "card",
       fields |-> "{\"properties\":{\"p1\":\"u1\",\"s1\":\"o1\",\"d1\":\"{\\\"from\\\":40}\"}}",
       props |-> [p1 |-> PropText("u1"), s1 |-> PropText("o1"), d1 |-> PropDate(40)],
       update_at |-> 20, delete_at |-> 0, nulls |-> {}],
      [rowid |-> 3, id |-> "k3", board_id |-> "b1", title |-> "", type |-> "card",
       fields |-> "{\"properties\":{\"p1\":\"u2\",\"s1\":\"o2\",\"d1\":\"{\\\"from\\\":60}\"}}",
       props |-> [p1 |-> PropText("u2"), s1 |-> PropText("o2"), d1 |-> PropDate(60)],
       update_at |-> 10, delete_at |-> 0, nulls |-> {"title"}],
      [rowid |-> 4, id |-> "k4", board_id |-> "b2", title |-> "Deploy", type |-> "card",
       fields |-> "{\"properties\":{\"m1\":[\"u1\",\"u2\"],\"s2\":\"o6\",\"d2\":\"{\\\"from\\\":40}\"}}",
       props |-> [m1 |-> PropList({"u1", "u2"}), s2 |-> PropText("o6"), d2 |-> PropDate(40)],
       update_at |-> 40, delete_at |-> 0, nulls |-> {}],
      [rowid |-> 5, id |-> "k5", board_id |-> "b1", title |-> "Dropped", type |-> "card",
       fields |-> "{\"properties\":{\"p1\":\"u1\",\"s1\":\"o1\",\"d1\":\"{\\\"from\\\":40}\"}}",
       props |-> [p1 |-> PropText("u1"), s1 |-> PropText("o1"), d1 |-> PropDate(40)],
       update_at |-> 50, delete_at |-> 45, nulls |-> {}] }

\* The tables of blocks, by the ids of their cards.
GenBlockTables ==
    { {r \in GenBlockRows : r.id \in ids} :
        ids \in {{}, {"k1", "k2"}, {"k1", "k4"}, {"k2", "k3"}, {"k3", "k4"}, {"k2", "k5"}} }

\* What the LLM may answer the Text-to-SQL prompt with: a fenced block of
\* several lines, a fenced block written in lower case, a line of prose
\* around the statement, a fence without the tag, prose alone, two blocks.
GenSQLAnswers ==
    { "~~~sql\nSELECT id, title\nFROM blocks\nWHERE type='card' AND delete_at=0\n~~~",
      "~~~sql\nselect id, title from blocks\nwhere type='card' and delete_at=0\n~~~",
      "Sure:\n  SELECT id, title FROM blocks WHERE type='card' AND delete_at=0;\nDone.",
      "~~~\nSELECT id FROM blocks WHERE delete_at=0\n~~~",
      "I cannot;",
      "~~~sql SELECT id FROM blocks WHERE delete_at=0 ~~~ or ~~~sql SELECT title FROM blocks~~~" }

GenInit ==
    /\ ragPc = "generate"
    /\ ragQuestion \in GenQuestions
    /\ ragUserID \in GenUserIDs
    /\ envAPIKey = "sk-key"
    /\ cfgDBType = "sqlite3"
    /\ boards \in GenBoardTables
    /\ blocks \in GenBlockTables
    /\ intent = intentQueryData
    /\ ragCatalog = [nil |-> TRUE]
    /\ ragSQLText = ""
    /\ contextJSON = ""
    /\ contextRows = <<>>
    /\ ragResult = Return("", NoErr)
    /\ ragLog = <<>>
    /\ ValIdle
    /\ RelayIdle
    /\ PairIdle
    /\ ModIdle
    /\ CrtIdle
    /\ SendIdle

GenGenerate == Generate(GenSQLAnswers)

GenNext ==
    \/ GenGenerate
    \/ RagExecute

SpecGenerate == GenInit /\ [][GenNext]_vars

-----------------------------------------------------------------------------
(* Two calls of PrepareRAGResponse at the same time, for two requests      *)
(* (SpecPair).  RAGService has the fields app and logger and nothing else;  *)
(* what a call computes it keeps in its locals.  The calls share the        *)
(* database file, the configuration and the environment, which they only    *)
(* read.  A step is one of the calls PrepareRAGResponse and generateSQL     *)
(* make; the steps of the two calls interleave in every way.                *)

Procs == {1, 2}

PairUserOf == [p \in Procs |-> IF p = 1 THEN "u1" ELSE "u2"]

NoLLM == LLMResult(NoErr, "", FALSE)

\* The answers the environment gives one call: the LLM's to the classifier
\* and to the Text-to-SQL prompt, the database's to discovery, to the
\* statement and to the fallback statement.
Env(classify, disc, sql, exec, fb) ==
    [classify |-> classify, disc |-> disc, sql |-> sql, exec |-> exec, fb |-> fb]

\* The questions of the two calls with the answers each may get: "query my
\* tasks" needs no LLM; "Hi" is classified and translated by the LLM.
PairInputs ==
    { [question |-> kwChaxunWodeRenwu, env |-> Env(NoLLM, d, NoLLM, e, "ok")] :
        d \in {"ok", "query"}, e \in {"ok", "scan"} }
    \cup
    { [question |-> <<"H", "i">>, env |-> Env(LLMResult(NoErr, c, TRUE), d, l, "ok", "ok")] :
        c \in {"query_data", "chat"}, d \in {"ok", "query"},
        l \in {LLMResult(NoErr, "SELECT id, title FROM blocks WHERE type='card' AND delete_at=0", TRUE),
               LLMResult(Err("http", "connection refused"), "", TRUE)} }

\* A call's locals before its first step.
Started(p, input) ==
    [pc |-> "classify", userID |-> PairUserOf[p], question |-> input.question, env |-> input.env,
     catalog |-> NilCatalog, builtBy |-> 0, usedFrom |-> 0,
     sql |-> "", json |-> "", rowids |-> <<>>, ret |-> Return("", NoErr)]

\* The tables the two calls read.
PairBoards == <<Board(<<Prop("p1", "person", "Assignee", <<>>), StatusProp, Prop("d1", "date", "Due", <<>>)>>)>>
PairBlockTables == { {}, {r \in BlockRows : r.id \in {"c1", "c2"}} }

PairInit ==
    /\ inv \in {[p \in Procs |-> Started(p, f[p])] : f \in [Procs -> PairInputs]}
    /\ boards = PairBoards
    /\ blocks \in PairBlockTables
    /\ envAPIKey = "sk-key"
    /\ cfgDBType = "sqlite3"
    /\ ragPc = "idle"
    /\ ragQuestion = <<>>
    /\ ragUserID = ""
    /\ intent = ""
    /\ ragCatalog = [nil |-> TRUE]
    /\ ragSQLText = ""
    /\ contextJSON = ""
    /\ contextRows = <<>>
    /\ ragResult = [prompt |-> "", err |-> NoErr]
    /\ ragLog = <<>>
    /\ ValIdle
    /\ RelayIdle
    /\ ModIdle
    /\ CrtIdle
    /\ SendIdle

\* What the pair's steps leave alone.
notPair == <<valVars, relayVars, ragVars, modVars, crtVars, sendVars>>

\* The rows the database answers a statement with.
AnswerOf(query) == CHOOSE a \in QueryAnswers(query, blocks) : TRUE

\* The order in which a call ranges over the catalog's status properties.
OrderOf(cat) == CHOOSE o \in StatusOrders(cat) : TRUE

\* Step 1 of call p: classifyIntent and the tests of its result.
PairClassify(p) ==
    /\ inv[p].pc = "classify"
    /\ LET next == AfterClassify(classifyIntent(inv[p].question, inv[p].env.classify))
       IN  inv' = [inv EXCEPT ![p].pc = next.pc, ![p].ret = next.ret]
    /\ UNCHANGED notPair

\* generateSQL's first statement: discovery, into the local catalog.
PairDiscover(p) ==
    /\ inv[p].pc = "generate"
    /\ inv' = [inv EXCEPT ![p].pc = "synthesize",
                          ![p].catalog = discoverPropertyCatalog(boards, inv[p].env.disc).cat,
                          ![p].builtBy = p]
    /\ UNCHANGED notPair

\* The catalog kept in one place for all calls: the one built last.
CatalogOfLastDiscovery(p, calls) ==
    IF \E q \in Procs \ {p} : calls[q].builtBy = q
    THEN LET q == CHOOSE x \in Procs \ {p} : calls[x].builtBy = x
         IN  [cat |-> calls[q].catalog, builtBy |-> q]
    ELSE [cat |-> calls[p].catalog, builtBy |-> calls[p].builtBy]

\* The catalog a call builds its statement from: its local.
CatalogFor(p, calls) == [cat |-> calls[p].catalog, builtBy |-> calls[p].builtBy]

\* The rest of generateSQL: a template or the LLM, then the validator.
PairSynthesize(p) ==
    /\ inv[p].pc = "synthesize"
    /\ LET c == CatalogFor(p, inv)
           r == generateSQL(inv[p].userID, inv[p].question, c.cat, OrderOf(c.cat), inv[p].env.sql)
           next == AfterGenerate(r)
       IN  inv' = [inv EXCEPT ![p].pc = next.pc, ![p].ret = next.ret, ![p].sql = r.sql,
                              ![p].usedFrom = c.builtBy]
    /\ UNCHANGED notPair

PairExecute(p) ==
    /\ inv[p].pc = "execute"
    /\ LET res == executeQuery(inv[p].sql, cfgDBType, inv[p].env.exec, AnswerOf(inv[p].sql))
           next == AfterExecute(res)
       IN  inv' = [inv EXCEPT ![p].pc = next.pc, ![p].ret = next.ret, ![p].json = res.json,
                              ![p].rowids = res.rowids]
    /\ UNCHANGED notPair

PairFallback(p) ==
    /\ inv[p].pc = "fallback"
    /\ LET fb == executeQuery(fallbackSQL, cfgDBType, inv[p].env.fb, AnswerOf(fallbackSQL))
           ctx == AfterFallback(inv[p].json, inv[p].rowids, fb)
       IN  inv' = [inv EXCEPT ![p].pc = "prompt", ![p].json = ctx.json, ![p].rowids = ctx.rowids]
    /\ UNCHANGED notPair

PairReturn(p) ==
    /\ inv[p].pc = "prompt"
    /\ inv' = [inv EXCEPT ![p].pc = "done",
                          ![p].ret = Return(buildFinalPrompt(inv[p].question, inv[p].json), NoErr)]
    /\ UNCHANGED notPair

PairNext ==
    \/ \E p \in Procs : PairClassify(p)
    \/ \E p \in Procs : PairDiscover(p)
    \/ \E p \in Procs : PairSynthesize(p)
    \/ \E p \in Procs : PairExecute(p)
    \/ \E p \in Procs : PairFallback(p)
    \/ \E p \in Procs : PairReturn(p)

SpecPair == PairInit /\ [][PairNext]_vars

\* PrepareRAGResponse run from its first to its last statement with nothing
\* else running: what it returns for the arguments and the answers of its
\* environment.
RunAlone(userID, question, env) ==
    LET afterClassify == AfterClassify(classifyIntent(question, env.classify))
        disc == discoverPropertyCatalog(boards, env.disc)
        r == generateSQL(userID, question, disc.cat, OrderOf(disc.cat), env.sql)
        res == executeQuery(r.sql, cfgDBType, env.exec, AnswerOf(r.sql))
        fb == executeQuery(fallbackSQL, cfgDBType, env.fb, AnswerOf(fallbackSQL))
    IN  IF afterClassify.pc = "done" THEN afterClassify.ret
        ELSE IF AfterGenerate(r).pc = "done" THEN AfterGenerate(r).ret
        ELSE IF AfterExecute(res).pc = "done" THEN AfterExecute(res).ret
        ELSE IF AfterExecute(res).pc = "fallback"
            THEN Return(buildFinalPrompt(question, AfterFallback(res.json, res.rowids, fb).json), NoErr)
        ELSE Return(buildFinalPrompt(question, res.json), NoErr)

-----------------------------------------------------------------------------
(* handleAIChatStream                                                      *)

\* What the handler writes to the client: an error response (errorResponse)
\* or one server-sent event carrying an AIStreamChunk.
ErrorResponse(msg) == [kind |-> "error", msg |-> msg]
AIStreamChunk(content, done) == [kind |-> "chunk", content |-> content, done |-> done]

\* A line of the LLM's response body: the text it starts with, and what
\* follows that: the termination marker, text that is no JSON, or a JSON
\* OpenAIResponse with its choices (each a delta content and a finish reason).
Line(head, kind, choices) == [head |-> head, kind |-> kind, choices |-> choices]
Choice(content, finish) == [content |-> content, finish |-> finish]

DataPrefix == "data: "

UpstreamLines ==
    { Line(DataPrefix, "json", <<Choice("a", "")>>),
      Line(DataPrefix, "json", <<Choice("b", "")>>),
      Line(DataPrefix, "json", <<Choice("", "stop")>>),
      Line(DataPrefix, "json", <<Choice("a", "stop")>>),
      Line(DataPrefix, "json", <<>>),
      Line(DataPrefix, "notjson", <<>>),
      Line(DataPrefix, "[DONE]", <<>>),
      Line("", "notjson", <<>>) }

MaxLines == 4

Upstreams == UNION {[1..n -> UpstreamLines] : n \in 0..MaxLines}

\* buildMessages
Message(role, content) == [Role |-> role, Content |-> content]

buildMessages(req) ==
    IF Len(req.Messages) > 0 THEN req.Messages
    ELSE IF req.Message # "" THEN <<Message("user", req.Message)>>
    ELSE <<>>

Requests ==
    { [Message |-> "hello", Messages |-> <<>>],
      [Message |-> "hello", Messages |-> <<Message("user", "earlier"), Message("assistant", "reply")>>] }

\* The request decoded from the body {}: json.Unmarshal leaves both fields at
\* their zero values, and neither handler tests them.
EmptyRequest == [Message |-> "", Messages |-> <<>>]

DecodedRequests == Requests \cup {EmptyRequest}

\* The results PrepareRAGResponse can hand back to the handler: a prompt and
\* no error, or no prompt and an error.
RagOutcomes ==
    { [prompt |-> "final prompt", err |-> NoErr],
      [prompt |-> "", err |-> Err("ErrIntentIsChat", "")],
      [prompt |-> "", err |-> Err("ErrAPIKeyNotSet", "")],
      [prompt |-> "", err |-> Err("sql", "database is locked")] }

\* The results the pipeline can have with a given API key: an intent comes
\* from the LLM only, and only callQwenInternal reports a missing key.
RagOutcomesWith(apiKey) ==
    {r \in RagOutcomes :
        /\ r.err.err = "ErrIntentIsChat" => TrimSpace(apiKey) # ""
        /\ r.err.err = "ErrAPIKeyNotSet" => TrimSpace(apiKey) = ""}

\* getEnv and getAIConfig's API key, given the environment's value.
getEnv(value, defaultValue) == IF value # "" THEN value ELSE defaultValue
getAIConfig(env) == getEnv(env, "")

KeyNotConfigured == "AI API key not configured (DASHSCOPE_API_KEY)"

\* LoopBody writing the terminal chunk itself when it meets the marker.
LoopBodyDoneOnMarker(line) ==
    IF ~HasPrefix(line.head, DataPrefix) THEN [emit |-> <<>>, brk |-> FALSE]
    ELSE IF line.kind = "[DONE]" THEN [emit |-> <<AIStreamChunk("", TRUE)>>, brk |-> TRUE]
    ELSE IF line.kind # "json" \/ Len(line.choices) = 0 THEN [emit |-> <<>>, brk |-> FALSE]
    ELSE [emit |-> IF line.choices[1].content # ""
                   THEN <<AIStreamChunk(line.choices[1].content, FALSE)>>
                   ELSE <<>>,
          brk  |-> line.choices[1].finish # ""]

\* LoopBody without the test of the finish reason.
LoopBodyNoBreakOnFinish(line) ==
    IF ~HasPrefix(line.head, DataPrefix) THEN [emit |-> <<>>, brk |-> FALSE]
    ELSE IF line.kind = "[DONE]" THEN [emit |-> <<>>, brk |-> TRUE]
    ELSE IF line.kind # "json" \/ Len(line.choices) = 0 THEN [emit |-> <<>>, brk |-> FALSE]
    ELSE [emit |-> IF line.choices[1].content # ""
                   THEN <<AIStreamChunk(line.choices[1].content, FALSE)>>
                   ELSE <<>>,
          brk  |-> FALSE]

\* One pass of the scanner loop's body over a line: the chunks it writes and
\* whether it leaves the loop.
LoopBody(line) ==
    IF ~HasPrefix(line.head, DataPrefix) THEN [emit |-> <<>>, brk |-> FALSE]
    ELSE IF line.kind = "[DONE]" THEN [emit |-> <<>>, brk |-> TRUE]
    ELSE IF line.kind # "json" \/ Len(line.choices) = 0 THEN [emit |-> <<>>, brk |-> FALSE]
    ELSE [emit |-> IF line.choices[1].content # ""
                   THEN <<AIStreamChunk(line.choices[1].content, FALSE)>>
                   ELSE <<>>,
          brk  |-> line.choices[1].finish # ""]

\* The chunks written after the loop.
FinalChunkSkippedOnError(readFailed) ==
    IF readFailed THEN <<>> ELSE <<AIStreamChunk("", TRUE)>>

FinalChunk(readFailed) == <<AIStreamChunk("", TRUE)>>

RelayInit ==
    /\ rPc = "read"
    /\ aiReq = [Message |-> "", Messages |-> <<>>]
    /\ streamMessages = <<>>
    /\ upstream = <<>>
    /\ upstreamEnd = "eof"
    /\ rPos = 0
    /\ scanErr = FALSE
    /\ sse = FALSE
    /\ out = <<>>
    /\ llmSent = <<>>
    /\ chatPc = "idle"
    /\ envAPIKey \in APIKeys
    /\ ValIdle
    /\ RagIdle
    /\ PairIdle
    /\ ModIdle
    /\ CrtIdle
    /\ SendIdle

\* io.ReadAll and json.Unmarshal of the request body.
RelayReadRequest ==
    /\ rPc = "read"
    /\ \/ /\ \E msg \in {"read error", "bad request"} : out' = Append(out, ErrorResponse(msg))
          /\ rPc' = "done"
          /\ UNCHANGED aiReq
       \/ /\ aiReq' \in DecodedRequests
          /\ rPc' = "rag"
          /\ UNCHANGED out
    /\ UNCHANGED <<streamMessages, upstream, upstreamEnd, rPos, scanErr, sse, llmSent, chatPc, notRelay>>

\* The message list chosen after PrepareRAGResponse returned r.
chooseMessages(req, r) ==
    IF r.err # NoErr THEN buildMessages(req) ELSE <<Message("user", r.prompt)>>

\* The call of PrepareRAGResponse and the choice of the message list.
RelayPrepare ==
    /\ rPc = "rag"
    /\ \E r \in RagOutcomesWith(envAPIKey) :
          /\ ragResult' = r
          /\ streamMessages' = chooseMessages(aiReq, r)
    /\ rPc' = "config"
    /\ UNCHANGED <<aiReq, upstream, upstreamEnd, rPos, scanErr, sse, out, llmSent, chatPc,
                   valVars, ragVarsButResult, pairVars, modVars, crtVars, sendVars>>

\* getAIConfig: the API key of the environment may be missing.
RelayConfig ==
    /\ rPc = "config"
    /\ IF getAIConfig(envAPIKey) = ""
       THEN /\ out' = Append(out, ErrorResponse(KeyNotConfigured))
            /\ rPc' = "done"
       ELSE /\ rPc' = "connect"
            /\ UNCHANGED out
    /\ UNCHANGED <<aiReq, streamMessages, upstream, upstreamEnd, rPos, scanErr, sse, llmSent, chatPc, notRelay>>

\* client.Do and the status test; with status 200 the response body is the
\* upstream the scanner reads.
RelayConnect ==
    /\ rPc = "connect"
    /\ llmSent' = Append(llmSent, streamMessages)
    /\ \/ /\ out' = Append(out, ErrorResponse("Failed to connect to AI service"))
          /\ rPc' = "done"
          /\ UNCHANGED <<upstream, upstreamEnd, sse>>
       \/ /\ out' = Append(out, ErrorResponse("AI API error: 500"))
          /\ rPc' = "done"
          /\ UNCHANGED <<upstream, upstreamEnd, sse>>
       \/ /\ upstream' \in Upstreams
          /\ upstreamEnd' \in {"eof", "error"}
          /\ sse' = TRUE
          /\ rPc' = "stream"
          /\ UNCHANGED out
    /\ UNCHANGED <<aiReq, streamMessages, rPos, scanErr, chatPc, notRelay>>

\* One scanner.Scan() and, when it returns a line, the loop's body.
RelayScan ==
    /\ rPc = "stream"
    /\ IF rPos < Len(upstream)
       THEN LET r == LoopBody(upstream[rPos + 1])
            IN  /\ rPos' = rPos + 1
                /\ out' = out \o r.emit
                /\ rPc' = IF r.brk THEN "final" ELSE "stream"
                /\ UNCHANGED scanErr
       ELSE /\ scanErr' = (upstreamEnd = "error")
            /\ rPc' = "final"
            /\ UNCHANGED <<rPos, out>>
    /\ UNCHANGED <<aiReq, streamMessages, upstream, upstreamEnd, sse, llmSent, chatPc, notRelay>>

\* After the loop: the terminal chunk.
RelayFinal ==
    /\ rPc = "final"
    /\ out' = out \o FinalChunk(scanErr)
    /\ rPc' = "done"
    /\ UNCHANGED <<aiReq, streamMessages, upstream, upstreamEnd, rPos, scanErr, sse, llmSent, chatPc, notRelay>>

RelayNext ==
    \/ RelayReadRequest
    \/ RelayPrepare
    \/ RelayConfig
    \/ RelayConnect
    \/ RelayScan
    \/ RelayFinal

SpecRelay == RelayInit /\ [][RelayNext]_vars

-----------------------------------------------------------------------------
(* handleAIChat                                                            *)

\* The JSON body of the handler's answer.
AIResponse(message) == [kind |-> "response", msg |-> message]

\* What the LLM endpoint may answer a request that is not streamed with.
ChatAnswers == {"answer", ""}

ChatInit ==
    /\ chatPc = "read"
    /\ rPc = "idle"
    /\ aiReq = [Message |-> "", Messages |-> <<>>]
    /\ streamMessages = <<>>
    /\ upstream = <<>>
    /\ upstreamEnd = "eof"
    /\ rPos = 0
    /\ scanErr = FALSE
    /\ sse = FALSE
    /\ out = <<>>
    /\ llmSent = <<>>
    /\ envAPIKey \in APIKeys
    /\ ValIdle
    /\ RagIdle
    /\ PairIdle
    /\ ModIdle
    /\ CrtIdle
    /\ SendIdle

\* io.ReadAll and json.Unmarshal of the request body.
ChatReadRequest ==
    /\ chatPc = "read"
    /\ \/ /\ \E msg \in {"read error", "bad request"} : out' = Append(out, ErrorResponse(msg))
          /\ chatPc' = "done"
          /\ UNCHANGED aiReq
       \/ /\ aiReq' \in DecodedRequests
          /\ chatPc' = "config"
          /\ UNCHANGED out
    /\ UNCHANGED <<rPc, streamMessages, upstream, upstreamEnd, rPos, scanErr, sse, llmSent, notRelay>>

\* getAIConfig and the test of the API key.
ChatConfig ==
    /\ chatPc = "config"
    /\ IF getAIConfig(envAPIKey) = ""
       THEN /\ out' = Append(out, ErrorResponse(KeyNotConfigured))
            /\ chatPc' = "done"
       ELSE /\ chatPc' = "connect"
            /\ UNCHANGED out
    /\ UNCHANGED <<rPc, aiReq, streamMessages, upstream, upstreamEnd, rPos, scanErr, sse, llmSent, notRelay>>

\* client.Do with the messages of buildMessages, and the answer made of
\* the LLM's response.
ChatConnect ==
    /\ chatPc = "connect"
    /\ llmSent' = Append(llmSent, buildMessages(aiReq))
    /\ \/ \E msg \in {"Failed to connect to AI service", "AI API error: 500",
                       "unexpected end of JSON input", "No response from AI"} :
             out' = Append(out, ErrorResponse(msg))
       \/ \E answer \in ChatAnswers : out' = Append(out, AIResponse(answer))
    /\ chatPc' = "done"
    /\ UNCHANGED <<rPc, aiReq, streamMessages, upstream, upstreamEnd, rPos, scanErr, sse, notRelay>>

-----------------------------------------------------------------------------
(* SpecAI: one operation that depends on the LLM, whichever it is: a call  *)
(* of PrepareRAGResponse, a request to handleAIChatStream or a request to  *)
(* handleAIChat, in an environment with or without the API key.            *)

AIInit ==
    \/ RagInit
    \/ RelayInit
    \/ ChatInit

AINext ==
    \/ RagClassify
    \/ RagGenerate
    \/ RagExecute
    \/ RagFallback
    \/ RagReturn
    \/ RelayReadRequest
    \/ RelayPrepare
    \/ RelayConfig
    \/ RelayConnect
    \/ RelayScan
    \/ RelayFinal
    \/ ChatReadRequest
    \/ ChatConfig
    \/ ChatConnect

SpecAI == AIInit /\ [][AINext]_vars

-----------------------------------------------------------------------------
(* SpecValidate: validateReadOnlySQL applied to each input of a bounded    *)
(* set: the statements of the specification's examples, and every text     *)
(* made of at most MaxTokens tokens separated by single spaces (the empty  *)
(* token gives leading, trailing and doubled spaces).                      *)

MaxTokens == 3

SqlTokens == {"", "SELECT", "select", "*", "FROM", "blocks", "delete_at", "Drop",
              "INSERT", "x;", "a--b", "/*"}

ExampleSQL == {"SELECT * FROM blocks; DROP TABLE boards",
               "UPDATE blocks SET title='x'",
               "SELECT id, title FROM blocks WHERE type='card'",
               "SELECT id FROM blocks WHERE update_at > 0 AND delete_at = 0",
               "select id from blocks where title = 'Alter' or title = 'truncate'",
               "SELECT id FROM updates",
               "SELECT 1 /* x */",
               "SELECT 1 -- x",
               "\n SELECT 1"}

TokenTexts == UNION {{Join(t, " ") : t \in [1..n -> SqlTokens]} : n \in 0..MaxTokens}

SqlInputs == ExampleSQL \cup TokenTexts

ValInit ==
    /\ valPc = "call"
    /\ valInput \in SqlInputs
    /\ valResult = NoErr
    /\ envAPIKey = ""
    /\ RelayIdle
    /\ RagIdle
    /\ PairIdle
    /\ ModIdle
    /\ CrtIdle
    /\ SendIdle

ValidateCall ==
    /\ valPc = "call"
    /\ valResult' = validateReadOnlySQL(valInput)
    /\ valPc' = "ret"
    /\ UNCHANGED <<valInput, notVal>>

ValNext == ValidateCall

SpecValidate == ValInit /\ [][ValNext]_vars

-----------------------------------------------------------------------------
(* Properties of validateReadOnlySQL.                                      *)

\* The words of a text: its maximal runs of word characters.
IsWordRun(s, i, j) ==
    /\ \A k \in i..j : Char(s, k) \in WordChars
    /\ (i = 1 \/ Char(s, i - 1) \notin WordChars)
    /\ (j = Len(s) \/ Char(s, j + 1) \notin WordChars)

WordsOf(s) ==
    {SubSeq(s, p[1], p[2]) :
        p \in {q \in (1..Len(s)) \X (1..Len(s)) : q[1] <= q[2] /\ IsWordRun(s, q[1], q[2])}}

HasWholeWord(s, kw) == \E w \in WordsOf(s) : ToUpper(w) = kw

KeywordsIn(s) == {k \in 1..Len(forbiddenKeywords) : HasWholeWord(s, forbiddenKeywords[k])}

RuleEmpty(s) == s = ""
RuleNotSelect(s) == LET t == TrimSpace(s) IN Len(t) < 6 \/ ToUpper(SubSeq(t, 1, 6)) # "SELECT"
RuleKeyword(s) == KeywordsIn(s) # {}
RuleChars(s) == \E c \in 1..Len(forbiddenChars) : Contains(s, forbiddenChars[c])

FirstFailingRule(s) ==
    IF RuleEmpty(s) THEN "ErrGeneratedSQLEmpty"
    ELSE IF RuleNotSelect(s) THEN "ErrGeneratedSQLNotSelect"
    ELSE IF RuleKeyword(s) THEN "ErrGeneratedSQLForbidden"
    ELSE IF RuleChars(s) THEN "ErrGeneratedSQLChars"
    ELSE "nil"

\* C5: validateReadOnlySQL returns the error of the first rule that fails, in
\* the order empty, not-a-SELECT, forbidden keyword, forbidden substring, and
\* nil exactly when no rule fails; the four statements of the specification
\* get the results it names.
C5_ValidateRuleOrder ==
    valPc = "ret" =>
        /\ valResult.err = FirstFailingRule(valInput)
        /\ (valResult = NoErr <=>
                ~(RuleEmpty(valInput) \/ RuleNotSelect(valInput)
                    \/ RuleKeyword(valInput) \/ RuleChars(valInput)))
        /\ (valInput = "" => valResult.err = "ErrGeneratedSQLEmpty")
        /\ (valInput = "UPDATE blocks SET title='x'"
                => valResult.err = "ErrGeneratedSQLNotSelect")
        /\ (valInput = "SELECT * FROM blocks; DROP TABLE boards"
                => valResult = Err("ErrGeneratedSQLForbidden", "DROP"))
        /\ (valInput = "SELECT id, title FROM blocks WHERE type='card'"
                => valResult = NoErr)

C5_Witness ==
    /\ valPc = "ret"
    /\ valInput = "SELECT * FROM blocks; DROP TABLE boards"
    /\ valResult = Err("ErrGeneratedSQLForbidden", "DROP")

\* C6: a statement holding one of the six keywords as a whole word, in any
\* letter case, is rejected; a forbidden-keyword error names a keyword that
\* is a whole word of the statement, so a keyword inside a longer identifier
\* (delete_at, update_at) is no reason to reject; and a statement that starts
\* with SELECT and holds no keyword as a whole word never gets that error.
C6_WholeWordKeywords ==
    valPc = "ret" =>
        /\ (KeywordsIn(valInput) # {} => valResult # NoErr)
        /\ (valResult.err = "ErrGeneratedSQLForbidden" =>
                \E k \in KeywordsIn(valInput) : valResult.detail = forbiddenKeywords[k])
        /\ (valInput = "SELECT id FROM blocks WHERE update_at > 0 AND delete_at = 0"
                => valResult = NoErr)

C6_Witness ==
    /\ valPc = "ret"
    /\ valInput = "SELECT Drop delete_at"
    /\ valResult = Err("ErrGeneratedSQLForbidden", "DROP")

-----------------------------------------------------------------------------
(* Properties of handleAIChatStream.                                       *)

TerminalChunk == AIStreamChunk("", TRUE)

DoneChunks(o) == {i \in 1..Len(o) : o[i].kind = "chunk" /\ o[i].done}

OneTerminalChunkLast(o) ==
    /\ Cardinality(DoneChunks(o)) = 1
    /\ o[Len(o)].kind = "chunk" /\ o[Len(o)].done

\* C1 as stated, for the requests whose body was read and decoded: every
\* finished request, failed ones included (missing API key, failed
\* connection, non-200 status), has written exactly one done:true chunk, and
\* written it last.
C1_EveryRequestEndsWithDoneChunk ==
    (rPc = "done" /\ aiReq \in Requests) => OneTerminalChunkLast(out)

\* C1, amended: a request whose LLM call was answered with status 200 ends
\* with exactly one done:true chunk, written last; a request that fails
\* before that (unreadable or malformed body, missing API key, failed
\* connection, non-200 status) is answered with one error response and no
\* chunk; at no time has more than one done:true chunk been written.
C1_StreamedRequestEndsWithDoneChunk ==
    /\ Cardinality(DoneChunks(out)) <= 1
    /\ (rPc = "done" /\ sse) => OneTerminalChunkLast(out)
    /\ (rPc = "done" /\ ~sse) => (Len(out) = 1 /\ out[1].kind = "error")

C1_Witness ==
    /\ rPc = "done" /\ sse
    /\ Len(out) = 3
    /\ out[3] = TerminalChunk

\* A content delta: a data event with a non-empty delta and no finish reason.
IsDelta(line) ==
    /\ line.head = "data: " /\ line.kind = "json" /\ Len(line.choices) > 0
    /\ line.choices[1].content # "" /\ line.choices[1].finish = ""

\* A finish event: a data event with a finish reason, or the marker.
IsFinish(line) ==
    /\ line.head = "data: "
    /\ \/ line.kind = "[DONE]"
       \/ line.kind = "json" /\ Len(line.choices) > 0 /\ line.choices[1].finish # ""

\* The upstream is n content deltas, then a finish event at f = n + 1, then
\* anything.
DeltasThenFinishAt(f) ==
    /\ f \in 1..Len(upstream)
    /\ IsFinish(upstream[f])
    /\ \A i \in 1..(f - 1) : IsDelta(upstream[i])

DeltaChunks(f) == [i \in 1..(f - 1) |-> AIStreamChunk(upstream[i].choices[1].content, FALSE)]

\* The delta a finish event carries itself.
FinishOwnChunk(line) ==
    IF line.kind = "json" /\ line.choices[1].content # ""
    THEN <<AIStreamChunk(line.choices[1].content, FALSE)>>
    ELSE <<>>

\* C2 as stated: after n content deltas and a finish event the client got
\* exactly the n done:false chunks, in order, and then the done:true chunk.
C2_ExactlyNChunksThenDone ==
    \A f \in 1..Len(upstream) :
        (rPc = "done" /\ sse /\ DeltasThenFinishAt(f)) =>
            out = DeltaChunks(f) \o <<TerminalChunk>>

\* C2, amended: after n content deltas and a finish event the client got the
\* n done:false chunks in arrival order, then one more done:false chunk when
\* the finish event carries a non-empty delta of its own, then exactly one
\* done:true chunk; and the scanner never returns a line after the finish
\* event.
C2_ChunksInOrderThenDone ==
    \A f \in 1..Len(upstream) :
        (sse /\ DeltasThenFinishAt(f)) =>
            /\ rPos <= f
            /\ rPc = "done" =>
                  /\ rPos = f
                  /\ out = DeltaChunks(f) \o FinishOwnChunk(upstream[f]) \o <<TerminalChunk>>

C2_Witness ==
    /\ rPc = "done" /\ sse
    /\ DeltasThenFinishAt(3)
    /\ Len(upstream) = 4
    /\ out = <<AIStreamChunk("a", FALSE), AIStreamChunk("b", FALSE), TerminalChunk>>

\* The contents of the deltas the loop relays when it meets no finish event.
RECURSIVE Relayed(_)
Relayed(lines) ==
    IF lines = <<>> THEN <<>>
    ELSE LET l == Head(lines)
         IN  (IF l.head = "data: " /\ l.kind = "json" /\ Len(l.choices) > 0
                    /\ l.choices[1].content # ""
              THEN <<AIStreamChunk(l.choices[1].content, FALSE)>>
              ELSE <<>>) \o Relayed(Tail(lines))

\* C3: when reading the upstream fails after k deltas were relayed, the
\* client has got those k chunks and then the terminal chunk.
C3_ReadErrorStillEndsStream ==
    (rPc = "done" /\ scanErr) => out = Relayed(upstream) \o <<TerminalChunk>>

C3_Witness ==
    /\ rPc = "done" /\ scanErr
    /\ out = <<AIStreamChunk("a", FALSE), AIStreamChunk("b", FALSE), TerminalChunk>>

-----------------------------------------------------------------------------
(* Properties of PrepareRAGResponse (SpecRAG).                             *)

ExecAt == {i \in 1..Len(ragLog) : ragLog[i].op = "exec"}
ValidateAt == {i \in 1..Len(ragLog) : ragLog[i].op = "validate"}

\* The statement holds no forbidden keyword as a whole word, in any case, and
\* none of the forbidden substrings.
Clean(sql) ==
    /\ \A k \in 1..Len(forbiddenKeywords) : ~MatchWord(ToUpper(sql), forbiddenKeywords[k])
    /\ \A c \in 1..Len(forbiddenChars) : ~Contains(sql, forbiddenChars[c])

\* The statement of entry i was passed to validateReadOnlySQL before, and
\* accepted.
ValidatedBefore(i) ==
    \E j \in ValidateAt : j < i /\ ragLog[j].sql = ragLog[i].sql /\ ragLog[j].ok

\* The primary and the fallback execution, when both were made.
BothExecuted == Cardinality(ExecAt) = 2
PrimaryExec == ragLog[CHOOSE i \in ExecAt : \A j \in ExecAt : i <= j]
FallbackExec == ragLog[CHOOSE i \in ExecAt : \A j \in ExecAt : i >= j]
PrimaryEmpty == PrimaryExec.ok /\ TrimSpace(PrimaryExec.json) = "[]"

\* C4 as stated: every statement handed to executeQuery, the primary and
\* the fallback alike, was passed to validateReadOnlySQL before and accepted,
\* and holds no forbidden keyword or substring.
C4_EveryExecutedStatementValidated ==
    \A i \in ExecAt : ValidatedBefore(i) /\ Clean(ragLog[i].sql)

\* C4, amended: the primary statement handed to executeQuery was passed to
\* validateReadOnlySQL before and accepted; the fallback statement is the
\* fixed text of PrepareRAGResponse, which is not passed to the validator;
\* neither holds a forbidden keyword or one of the substrings ; -- /*.
C4_PrimaryValidatedFallbackFixed ==
    \A i \in ExecAt :
        /\ Clean(ragLog[i].sql)
        /\ IF \A j \in ExecAt : i <= j THEN ValidatedBefore(i)
           ELSE ragLog[i].sql = fallbackSQL /\ PrimaryEmpty /\ validateReadOnlySQL(fallbackSQL) = NoErr

C4_Witness ==
    /\ ragPc = "done" /\ ragResult.err = NoErr
    /\ BothExecuted /\ FallbackExec.sql = fallbackSQL /\ ~ValidatedBefore(Len(ragLog))

\* generateSQL has returned to PrepareRAGResponse.
Generated == intent = intentQueryData /\ ragPc \notin {"classify", "generate"}

\* C7: every branch of generateSQL passes the statement it produced to
\* validateReadOnlySQL before returning it: a statement generateSQL returned
\* is the one the validator accepted, unaltered; when validation fails,
\* generateSQL returns the validator's error and an empty statement, and
\* nothing is executed; only a failed LLM call returns without validation.
C7_GenerateValidatesBeforeReturning ==
    /\ Generated =>
        \/ /\ Cardinality(ValidateAt) = 1
           /\ LET v == ragLog[CHOOSE i \in ValidateAt : TRUE]
              IN  IF v.ok
                  THEN ragSQLText = v.sql /\ validateReadOnlySQL(ragSQLText) = NoErr
                  ELSE /\ ragPc = "done"
                       /\ ragSQLText = ""
                       /\ ragResult = Return("", validateReadOnlySQL(v.sql))
                       /\ ragResult.err # NoErr
                       /\ ExecAt = {}
        \/ /\ ValidateAt = {}
           /\ TemplateOf(ragQuestion) = ""
           /\ \E i \in 1..Len(ragLog) : ragLog[i].op = "llm.sql" /\ ~ragLog[i].ok
           /\ ragPc = "done" /\ ragSQLText = "" /\ ragResult.err # NoErr
    /\ ~Generated => ValidateAt = {}

C7_Witness ==
    /\ Generated
    /\ \E i \in ValidateAt : ragLog[i].sql = "SELECT id FROM blocks; DROP TABLE boards" /\ ~ragLog[i].ok
    /\ ragResult = Return("", Err("ErrGeneratedSQLForbidden", "DROP"))

\* C8 as stated: every row placed in a returned prompt belongs to a record
\* of blocks with delete_at = 0.
C8_PromptRowsNotDeleted ==
    ragPc = "done" /\ ragResult.err = NoErr =>
        \A r \in blocks :
            (\E i \in 1..Len(contextRows) : contextRows[i] = r.rowid) => r.delete_at = 0

\* C9: when the primary query succeeds with zero rows and the fallback query
\* succeeds with at least one row, the returned prompt holds the fallback's
\* serialized rows and not the empty primary result.
C9_FallbackRowsInPrompt ==
    ragPc = "done" /\ BothExecuted /\ PrimaryEmpty
            /\ FallbackExec.ok /\ TrimSpace(FallbackExec.json) # "[]" =>
        /\ ragResult.err = NoErr
        /\ Contains(ragResult.prompt, ":\n" \o FallbackExec.json \o "\n\n")
        /\ ~Contains(ragResult.prompt, ":\n[]\n\n")

C9_Witness ==
    /\ ragPc = "done" /\ BothExecuted /\ PrimaryEmpty
    /\ FallbackExec.ok /\ Contains(FallbackExec.json, "\"id\":\"c1\"")
    /\ Contains(ragResult.prompt, "\"id\":\"c1\"")

\* C10: when the primary query returns zero rows and the fallback query
\* fails, the call returns a nil error and the prompt built from the empty
\* primary result.
C10_FallbackFailureSwallowed ==
    ragPc = "done" /\ BothExecuted /\ PrimaryEmpty /\ ~FallbackExec.ok =>
        /\ ragResult.err = NoErr
        /\ Contains(ragResult.prompt, QText(ragQuestion))
        /\ Contains(ragResult.prompt, ":\n" \o PrimaryExec.json \o "\n\n")

C10_Witness ==
    /\ ragPc = "done" /\ BothExecuted /\ PrimaryEmpty /\ ~FallbackExec.ok
    /\ ragResult.err = NoErr /\ ragResult.prompt # ""

\* The calls of ragLog with the given name.
CallsOf(op) == {i \in 1..Len(ragLog) : ragLog[i].op = op}

\* C11: when discoverPropertyCatalog fails, generateSQL does not fail because
\* of it: for a question matching a template it returns the statement with
\* no assignee, status or date clause (only type='card' AND delete_at=0, the
\* ordering and the limit) and the pipeline goes on to execute it; for any
\* other question generateSQL fails only by its LLM call or its validation.
C11_DiscoveryFailureSwallowed ==
    (\E i \in CallsOf("discover") : ~ragLog[i].ok) =>
        IF TemplateOf(ragQuestion) # ""
        THEN /\ ragSQLText = "SELECT id, title, board_id, fields, update_at FROM blocks WHERE type='card' AND delete_at=0  ORDER BY update_at DESC LIMIT 50"
             /\ ragPc = "execute" \/ (ExecAt # {} /\ PrimaryExec.sql = ragSQLText)
        ELSE ragPc = "done" /\ ExecAt = {} =>
                \/ \E i \in CallsOf("llm.sql") : ~ragLog[i].ok
                \/ \E i \in ValidateAt : ~ragLog[i].ok

C11_Witness ==
    /\ \E i \in CallsOf("discover") : ~ragLog[i].ok
    /\ ragQuestion = kwChaxunWodeRenwu
    /\ buildAssigneeClause(ragUserID, CatalogOf(EmptyCatalog, boards)) # ""
    /\ ragPc = "done" /\ ragResult.err = NoErr
    /\ ~Contains(ragSQLText, "json_extract")

-----------------------------------------------------------------------------
(* Properties of classifyIntent and of step 1 (SpecClassify, SpecRAG).     *)

\* Step 1 has run.
Classified == ragPc # "classify"

\* The question holds the keyword.
Has(kw) == Contains(ragQuestion, kw)

\* The question matches the keywords of a template of generateSQL.
MatchesTemplate ==
    \/ Has(kwChaxunWodeRenwu) \/ Has(kwWodeRenwu) \/ (Has(kwRenwu) /\ Has(kwWo))
    \/ Has(kwDaiban) \/ Has(kwWeiwancheng) \/ Has(kwDaiban2)
    \/ Has(kwYiwancheng) \/ Has(kwWancheng)
    \/ Has(kwJinxingzhong)
    \/ Has(kwYuqi) \/ Has(kwGuoqi) \/ Has(kwGuoleJiezhiRiqi) \/ Has(kwJiezhiRiqiYiguo)
    \/ Has(kwYiguoqi)

\* The question matches a keyword rule of classifyIntent: "my tasks", or
\* "tasks" with "my", or "tasks" with one of the classifier's ten keywords.
MatchesClassifierRule ==
    \/ Has(kwWodeRenwu)
    \/ Has(kwRenwu) /\ Has(kwWo)
    \/ /\ Has(kwRenwu)
       /\ \/ Has(kwChaxun) \/ Has(kwDaiban) \/ Has(kwJinxingzhong) \/ Has(kwWeiwancheng)
          \/ Has(kwWancheng) \/ Has(kwYuqi) \/ Has(kwGuoqi) \/ Has(kwJiezhi) \/ Has(kwDaoqi)

\* C13 as stated: for every question matching the keywords of a template,
\* classifyIntent returns query_data and makes no LLM call.
C13_TemplateQuestionsNeedNoLLM ==
    Classified /\ MatchesTemplate =>
        intent = intentQueryData /\ CallsOf("llm.classify") = {} /\ CallsOf("http") = {}

\* C13, amended: for every question matching a keyword rule of the classifier
\* ("my tasks"; "tasks" with "my"; "tasks" with one of the classifier's
\* keywords) classifyIntent returns query_data and makes no LLM call; a
\* question that matches a template's keywords but no rule of the classifier
\* (a status or overdue keyword without "tasks", or the template's to-do
\* keyword kwDaiban2 with or without "tasks") is classified by one LLM call.
C13_ClassifierRuleNeedsNoLLM ==
    Classified =>
        IF MatchesClassifierRule
        THEN intent = intentQueryData /\ ragPc = "generate"
                /\ CallsOf("llm.classify") = {} /\ CallsOf("http") = {}
        ELSE Cardinality(CallsOf("llm.classify")) = 1

C13_Witness ==
    /\ Classified /\ MatchesTemplate /\ MatchesClassifierRule
    /\ ragQuestion = kwYuqi \o <<"de", "ren", "wu", "?", " ">>
    /\ intent = intentQueryData /\ ragLog = <<>>

\* The LLM's answer to the classifier holds neither "chat" nor "query_data",
\* in any case.
AnswerHasNeither ==
    \E i \in CallsOf("llm.classify") :
        /\ ragLog[i].ok
        /\ ~Contains(ToLower(ragLog[i].json), "chat")
        /\ ~Contains(ToLower(ragLog[i].json), "query_data")

\* C14: for every question that matches no keyword rule classifyIntent makes
\* exactly one LLM call (one HTTP request at most), and when the LLM's answer
\* holds neither "chat" nor "query_data" it returns chat and no error.
C14_OneLLMCallDefaultChat ==
    Classified /\ ~MatchesClassifierRule =>
        /\ Cardinality(CallsOf("llm.classify")) = 1
        /\ Cardinality(CallsOf("http")) <= 1
        /\ AnswerHasNeither =>
            intent = intentChat /\ ragResult = Return("", Err("ErrIntentIsChat", ""))

C14_Witness ==
    /\ Classified /\ ~MatchesClassifierRule /\ AnswerHasNeither
    /\ ragQuestion = <<"H", "i">>
    /\ Cardinality(CallsOf("llm.classify")) = 1 /\ Cardinality(CallsOf("http")) = 1
    /\ intent = intentChat

\* C16 as stated: when the LLM's answer to the classifier holds neither word,
\* PrepareRAGResponse returns the unknown-intent error.
C16_NeitherTokenIsUnknownIntent ==
    Classified /\ AnswerHasNeither => ragResult = Return("", Err("ErrUnknownIntent", ""))

\* C16, amended: when the LLM's answer to the classifier holds neither word,
\* classifyIntent returns chat and PrepareRAGResponse returns the
\* intent-is-chat error and an empty prompt; no call of PrepareRAGResponse
\* returns the unknown-intent error.
C16_NeitherTokenIsChat ==
    /\ Classified /\ AnswerHasNeither =>
        ragPc = "done" /\ ragResult = Return("", Err("ErrIntentIsChat", ""))
    /\ ragResult.err.err # "ErrUnknownIntent"
    /\ Classified /\ CallsOf("llm.classify") # {} /\ ~AnswerHasNeither
            /\ (\A i \in CallsOf("llm.classify") : ragLog[i].ok) =>
        intent \in {intentChat, intentQueryData}

C16_Witness ==
    /\ Classified /\ AnswerHasNeither
    /\ \E i \in CallsOf("llm.classify") : ragLog[i].json = "maybe"
    /\ ragResult = Return("", Err("ErrIntentIsChat", ""))

\* Calls of the steps after the classification.
LaterCalls ==
    CallsOf("discover") \cup CallsOf("llm.sql") \cup CallsOf("validate")
        \cup CallsOf("exec") \cup CallsOf("sql.Open") \cup CallsOf("db.Query")

\* C15: when the LLM call made by classifyIntent fails (missing credential,
\* network error, non-200 status, undecodable body, empty choices),
\* classifyIntent returns that error and no intent, and PrepareRAGResponse
\* returns the same error and no prompt, without defaulting to chat and
\* without discovering a catalog, synthesizing or executing any SQL.
C15_ClassifierLLMFailurePropagates ==
    \A i \in CallsOf("llm.classify") :
        ~ragLog[i].ok =>
            /\ intent = ""
            /\ ragPc = "done"
            /\ ragResult = Return("", ragLog[i].err)
            /\ ragResult.err.err \in {"ErrAPIKeyNotSet", "http", "ErrQwenAPI", "json", "ErrQwenEmptyChoice"}
            /\ LaterCalls = {}

C15_Witness ==
    /\ \E i \in CallsOf("llm.classify") : ragLog[i].err = Err("ErrQwenAPI", "500: internal error")
    /\ ragPc = "done"
    /\ ragResult = Return("", Err("ErrQwenAPI", "500: internal error"))

\* C17: when the classified intent is chat, PrepareRAGResponse returns the
\* intent-is-chat error and an empty prompt, and performs no catalog
\* discovery, no SQL synthesis, no query execution and no further LLM call.
C17_ChatIntentSkipsPipeline ==
    Classified /\ intent = intentChat =>
        /\ ragPc = "done"
        /\ ragResult = Return("", Err("ErrIntentIsChat", ""))
        /\ LaterCalls = {}
        /\ Cardinality(CallsOf("llm.classify")) = 1
        /\ Cardinality(CallsOf("http")) = 1
        /\ ragSQLText = "" /\ contextJSON = ""

C17_Witness ==
    /\ Classified /\ intent = intentChat /\ ragPc = "done"
    /\ blocks # {} /\ boards # <<>>
    /\ \E i \in CallsOf("llm.classify") : ragLog[i].json = " Chat\n"

\* A call whose failure ends the invocation: every call but the catalog
\* discovery and the execution of the fallback statement.
Aborting(i) ==
    /\ ragLog[i].op \in {"llm.classify", "llm.sql", "validate", "exec"}
    /\ ~(ragLog[i].op = "exec" /\ \E j \in CallsOf("exec") : j < i)

\* C18: within one invocation nothing is retried: at most one classification
\* LLM call and one synthesis LLM call, each sending one request at most;
\* the primary statement is executed at most once and the fallback statement
\* at most once, after an empty primary result; after a failure other than
\* that of the catalog discovery or of the fallback query no further call is
\* made, and that one error is returned with no prompt.
C18_NothingRetried ==
    /\ Cardinality(CallsOf("llm.classify")) <= 1
    /\ Cardinality(CallsOf("llm.sql")) <= 1
    /\ Cardinality(CallsOf("http")) <= Cardinality(CallsOf("llm.classify") \cup CallsOf("llm.sql"))
    /\ Cardinality(CallsOf("discover")) <= 1
    /\ Cardinality(CallsOf("validate")) <= 1
    /\ Cardinality(CallsOf("exec")) <= 2
    /\ Cardinality({i \in CallsOf("exec") : ragLog[i].sql = ragSQLText}) <= 1
    /\ BothExecuted => FallbackExec.sql = fallbackSQL /\ PrimaryEmpty
    /\ \A i \in 1..Len(ragLog) :
        Aborting(i) /\ ~ragLog[i].ok =>
            /\ i = Len(ragLog)
            /\ ragPc = "done"
            /\ ragResult = Return("", ragLog[i].err)
    /\ ragResult.err # NoErr =>
        /\ ragPc = "done" /\ ragResult.prompt = ""
        /\ \/ Aborting(Len(ragLog)) /\ ~ragLog[Len(ragLog)].ok
           \/ ragResult.err.err = "ErrIntentIsChat"

C18_Witness ==
    /\ ragPc = "done"
    /\ ragResult = Return("", Err("sql", "database is locked"))
    /\ Cardinality(CallsOf("exec")) = 1
    /\ Cardinality({i \in CallsOf("db.Query") : ragLog[i].sql = ragSQLText}) = 1
    /\ \E i \in CallsOf("discover") : ragLog[i].ok

\* C19: when the configured engine is anything but sqlite3, compared without
\* regard to case, executeQuery returns the unsupported-engine error without
\* opening a connection or running the statement, and every invocation that
\* reaches the execution returns that error and no prompt.
C19_UnsupportedEngineFailsFast ==
    /\ ToLower(cfgDBType) # "sqlite3" =>
        /\ \A i \in CallsOf("exec") :
            /\ ragLog[i].err = Err("ErrUnsupportedDBType", "")
            /\ ragLog[i].json = ""
            /\ \A j \in CallsOf("sql.Open") \cup CallsOf("db.Query") : ragLog[j].sql # ragLog[i].sql
            /\ ragPc = "done" /\ ragResult = Return("", Err("ErrUnsupportedDBType", ""))
        /\ Cardinality(CallsOf("exec")) <= 1
        /\ ragPc \notin {"fallback", "prompt"}
        /\ ragResult.prompt = ""
    /\ ToLower(cfgDBType) = "sqlite3" =>
        \A i \in CallsOf("exec") :
            /\ ragLog[i].err # Err("ErrUnsupportedDBType", "")
            /\ \E j \in CallsOf("sql.Open") : j < i /\ ragLog[j].sql = ragLog[i].sql

C19_Witness ==
    /\ cfgDBType = "postgres" /\ blocks # {}
    /\ ragPc = "done" /\ CallsOf("exec") # {}
    /\ ragResult = Return("", Err("ErrUnsupportedDBType", ""))

-----------------------------------------------------------------------------
(* Properties of the handlers' use of the pipeline and of the API key      *)

\* err.Error(): the text of a sentinel, followed by what fmt.Errorf wrapped
\* it with; an error of a library is its own text.
ErrorText(e) ==
    LET sentinel ==
            CASE e.err = "ErrIntentIsChat" -> "intent is chat, RAG not applicable"
              [] e.err = "ErrUnknownIntent" -> "unknown intent, RAG not applicable"
              [] e.err = "ErrUnsupportedDBType" -> "RAG executeQuery currently supports sqlite3 only"
              [] e.err = "ErrAPIKeyNotSet" -> "DASHSCOPE_API_KEY is not set"
              [] e.err = "ErrQwenAPI" -> "qwen api error"
              [] e.err = "ErrQwenEmptyChoice" -> "empty choices from qwen"
              [] e.err = "ErrGeneratedSQLEmpty" -> "generated SQL is empty"
              [] e.err = "ErrGeneratedSQLNotSelect" -> "only SELECT is allowed"
              [] e.err = "ErrGeneratedSQLForbidden" -> "forbidden keyword in SQL"
              [] e.err = "ErrGeneratedSQLChars" -> "forbidden characters in SQL"
              [] OTHER -> ""
    IN  IF sentinel = "" THEN e.detail
        ELSE IF e.detail = "" THEN sentinel
        ELSE sentinel \o ": " \o e.detail

\* The handler has gone past its call of PrepareRAGResponse, which failed.
PipelineFailed == rPc \notin {"idle", "read", "rag"} /\ ragResult.err # NoErr

\* The texts that went to the LLM and to the client.
TextsSent ==
    {llmSent[i][j].Content : <<i, j>> \in {ij \in (DOMAIN llmSent) \X (1..2) : ij[2] <= Len(llmSent[ij[1]])}}
        \cup {IF out[i].kind = "chunk" THEN out[i].content ELSE out[i].msg : i \in DOMAIN out}

\* C12 (as stated): whenever PrepareRAGResponse returns an error,
\* handleAIChatStream goes on with the user's original message, the one it
\* gave to the pipeline, as the chat input of the LLM, and no text of the
\* pipeline's error is in anything sent to the LLM or to the client.
C12_FailedPipelineSendsOriginalMessage ==
    PipelineFailed =>
        /\ streamMessages = <<Message("user", aiReq.Message)>>
        /\ \A i \in DOMAIN llmSent : llmSent[i] = <<Message("user", aiReq.Message)>>
        /\ \A t \in TextsSent : ~Contains(t, ErrorText(ragResult.err))

\* The part of C12 that holds of every request: the list sent after a failed
\* pipeline is that of buildMessages, and no text of the pipeline's error is
\* in anything sent to the LLM or to the client.
FailedPipelineSendsBuiltMessages ==
    PipelineFailed =>
        /\ streamMessages = buildMessages(aiReq)
        /\ \A i \in DOMAIN llmSent : llmSent[i] = buildMessages(aiReq)
        /\ \A t \in TextsSent : ~Contains(t, ErrorText(ragResult.err))

\* The operation has ended with the one error response that reports the
\* missing key, or with that of a request it could not read.
RefusedBeforeLLM(pc) ==
    /\ pc \in {"idle", "read", "rag", "config", "done"}
    /\ pc = "done" =>
        /\ Len(out) = 1 /\ out[1].kind = "error"
        /\ out[1].msg \in {"read error", "bad request", KeyNotConfigured}
        /\ aiReq \in Requests => out[1].msg = KeyNotConfigured

-----------------------------------------------------------------------------
(* handleAIModifyCardStatus: POST /api/v2/ai/cards/modify, one request     *)
(* (SpecModify).                                                           *)

\* What errorResponse writes for an error: 400 for model.NewErrBadRequest
\* (as TestAIModifyCardStatus expects), 403 for model.NewErrPermission, 500
\* for an error of another kind; and the 200 of jsonBytesResponse.
Response(code, msg) == [code |-> code, msg |-> msg]
NewErrBadRequest(msg) == Response(400, msg)
NewErrPermission(msg) == Response(403, msg)
InternalError(msg) == Response(500, msg)
StatusOK == Response(200, "")

\* The request body: unreadable (io.ReadAll fails), no JSON object of the
\* request's shape (json.Unmarshal fails), or an AICardStatusUpdateRequest.
UpdateRequest(cardId, status) == [kind |-> "json", cardId |-> cardId, status |-> status]

ModBodies ==
    { [kind |-> "unreadable", cardId |-> "", status |-> ""],
      [kind |-> "malformed", cardId |-> "", status |-> ""] }
    \cup {UpdateRequest(c, st) : c \in {"", "k1", "k2", "k9"}, st \in {"", "Done"}}

\* A card property definition of a board: prop["name"], prop["id"], and
\* whether prop["id"] is a string.
ModProp(name, id, stringID) == [name |-> name, id |-> id, stringID |-> stringID]

\* The card properties board b1 may have.
ModBoardProps ==
    { <<ModProp("Priority", "x1", TRUE), ModProp("Status", "s1", TRUE)>>,
      <<ModProp("Priority", "x1", TRUE)>>,
      <<ModProp("status", "s1", TRUE)>>,
      <<ModProp("Status", "", FALSE), ModProp("Status", "s3", TRUE)>>,
      <<ModProp("Status", "", TRUE), ModProp("Status", "s3", TRUE)>> }

ModBoard(fails, props) == [fails |-> fails, props |-> props]

\* The cards of the store: k1 on board b1, k2 on board b2; k9 is no card.
ModCardsAtStart ==
    [c \in {"k1", "k2"} |-> [id |-> c, boardID |-> IF c = "k1" THEN "b1" ELSE "b2", props |-> <<>>]]

ModInit ==
    /\ modPc = "read"
    /\ modBody \in ModBodies
    /\ modPerm \in SUBSET {"b1", "b2"}
    /\ modCards = ModCardsAtStart
    /\ \E props \in ModBoardProps, b2fails \in BOOLEAN :
        modBoards = [b \in {"b1", "b2"} |->
                        IF b = "b1" THEN ModBoard(FALSE, props)
                        ELSE ModBoard(b2fails, <<ModProp("Status", "s2", TRUE)>>)]
    /\ modPatchFails \in BOOLEAN
    /\ modCard = [found |-> FALSE]
    /\ modPropID = ""
    /\ modCalls = <<>>
    /\ modResp = Response(0, "")
    /\ envAPIKey = ""
    /\ ValIdle
    /\ RelayIdle
    /\ RagIdle
    /\ PairIdle
    /\ CrtIdle
    /\ SendIdle

\* A call of the app, of the permission service or of the audit log.
ModCall(op, arg, prop, value) == [op |-> op, arg |-> arg, prop |-> prop, value |-> value]

\* io.ReadAll and json.Unmarshal.
ModRead ==
    /\ modPc = "read"
    /\ IF modBody.kind = "unreadable"
       THEN modPc' = "done" /\ modResp' = InternalError("unexpected EOF")
       ELSE IF modBody.kind = "malformed"
       THEN modPc' = "done" /\ modResp' = NewErrBadRequest("invalid character")
       ELSE modPc' = "check" /\ modResp' = modResp
    /\ UNCHANGED <<modBody, modPerm, modCards, modBoards, modPatchFails, modCard, modPropID, modCalls, notMod>>

\* The tests of the request's fields with the status test left out.
CheckCardIDOnly(req) ==
    IF req.cardId = "" THEN "cardId is required" ELSE ""

\* The tests of the request's fields: the message of the error, or "".
checkRequest(req) ==
    IF req.cardId = "" THEN "cardId is required"
    ELSE IF req.status = "" THEN "status is required"
    ELSE ""

ModCheck ==
    /\ modPc = "check"
    /\ IF checkRequest(modBody) # ""
       THEN modPc' = "done" /\ modResp' = NewErrBadRequest(checkRequest(modBody))
       ELSE modPc' = "card" /\ modResp' = modResp
    /\ UNCHANGED <<modBody, modPerm, modCards, modBoards, modPatchFails, modCard, modPropID, modCalls, notMod>>

\* a.app.GetCardByID.
ModGetCard ==
    /\ modPc = "card"
    /\ modCalls' = Append(modCalls, ModCall("GetCardByID", modBody.cardId, "", ""))
    /\ IF modBody.cardId \notin DOMAIN modCards
       THEN /\ modPc' = "done"
            /\ modResp' = NewErrBadRequest("could not fetch card " \o modBody.cardId \o ": not found")
            /\ modCard' = modCard
       ELSE /\ modPc' = "perm"
            /\ modResp' = modResp
            /\ modCard' = [found |-> TRUE, id |-> modCards[modBody.cardId].id,
                           boardID |-> modCards[modBody.cardId].boardID]
    /\ UNCHANGED <<modBody, modPerm, modCards, modBoards, modPatchFails, modPropID, notMod>>

\* a.permissions.HasPermissionToBoard(userID, card.BoardID,
\* model.PermissionManageBoardCards).
ModPermission ==
    /\ modPc = "perm"
    /\ modCalls' = Append(modCalls, ModCall("HasPermissionToBoard", modCard.boardID, "", ""))
    /\ IF modCard.boardID \notin modPerm
       THEN modPc' = "done" /\ modResp' = NewErrPermission("access denied to modify card")
       ELSE modPc' = "board" /\ modResp' = modResp
    /\ UNCHANGED <<modBody, modPerm, modCards, modBoards, modPatchFails, modCard, modPropID, notMod>>

\* The loop over board.CardProperties: the id of the first property named
\* "Status" whose id is a string, or "".
RECURSIVE FindStatusProperty(_)
FindStatusProperty(props) ==
    IF props = <<>> THEN ""
    ELSE IF Head(props).name = "Status" /\ Head(props).stringID THEN Head(props).id
    ELSE FindStatusProperty(Tail(props))

\* a.app.GetBoard and the search for the status property.
ModGetBoard ==
    /\ modPc = "board"
    /\ modCalls' = Append(modCalls, ModCall("GetBoard", modCard.boardID, "", ""))
    /\ IF modBoards[modCard.boardID].fails
       THEN /\ modPc' = "done"
            /\ modResp' = NewErrBadRequest("could not fetch board " \o modCard.boardID \o ": not found")
            /\ modPropID' = modPropID
       ELSE /\ modPropID' = FindStatusProperty(modBoards[modCard.boardID].props)
            /\ IF modPropID' = ""
               THEN modPc' = "done" /\ modResp' = NewErrBadRequest("status property not found in board")
               ELSE modPc' = "patch" /\ modResp' = modResp
    /\ UNCHANGED <<modBody, modPerm, modCards, modBoards, modPatchFails, modCard, notMod>>

\* The CardPatch with the one updated property, a.app.PatchCard, the
\* response, and the audit record written when the handler returns.
ModPatch ==
    /\ modPc = "patch"
    /\ modPc' = "done"
    /\ IF modPatchFails
       THEN /\ modCards' = modCards
            /\ modResp' = InternalError("patch failed")
            /\ modCalls' = modCalls \o <<ModCall("PatchCard", modCard.id, modPropID, modBody.status),
                                         ModCall("audit.LogRecord", modCard.id, "", "fail")>>
       ELSE /\ modCards' = [modCards EXCEPT ![modCard.id].props = MapPut(@, modPropID, modBody.status)]
            /\ modResp' = StatusOK
            /\ modCalls' = modCalls \o <<ModCall("PatchCard", modCard.id, modPropID, modBody.status),
                                         ModCall("audit.LogRecord", modCard.id, "", "success")>>
    /\ UNCHANGED <<modBody, modPerm, modBoards, modPatchFails, modCard, modPropID, notMod>>

ModNext ==
    \/ ModRead
    \/ ModCheck
    \/ ModGetCard
    \/ ModPermission
    \/ ModGetBoard
    \/ ModPatch

SpecModify == ModInit /\ [][ModNext]_vars

-----------------------------------------------------------------------------
(* handleAICreateCard: POST /api/v2/ai/cards/create, one request           *)
(* (SpecCreate).                                                           *)

\* The request body: unreadable (io.ReadAll fails), no JSON of a card's
\* shape (json.Unmarshal fails), the JSON text null (json.Unmarshal leaves
\* the pointer newCard nil and returns no error), or a JSON object with the
\* card's boardId and icon.
CardBody(kind, boardId, icon) == [kind |-> kind, boardId |-> boardId, icon |-> icon]

CrtBodies ==
    {CardBody(k, "", "") : k \in {"unreadable", "malformed", "null"}}
    \cup {CardBody("json", b, i) : b \in {"", "b1", "b2"}, i \in {"", "x", "xy"}}

\* What json.Unmarshal(requestBody, &newCard) leaves in newCard.
NewCard(body) ==
    IF body.kind = "null" THEN [nil |-> TRUE]
    ELSE [nil |-> FALSE, ID |-> "", BoardID |-> body.boardId, Icon |-> body.icon]

\* model.Card.PopulateWithBoardID: the board's id and a fresh id.
PopulateWithBoardID(card, boardID) == [card EXCEPT !.BoardID = boardID, !.ID = "c1"]

\* model.Card.CheckValid on a populated card: the message of the error, or
\* "".  The icon is at most one character.
CheckValid(card) ==
    IF card.ID = "" THEN "ID is missing"
    ELSE IF card.BoardID = "" THEN "BoardID is missing"
    ELSE IF Len(card.Icon) > 1 THEN "Icon can have only one grapheme"
    ELSE ""

\* No response: the handler left by a run-time panic.
Panicked == Response(0, "invalid memory address or nil pointer dereference")

CrtInit ==
    /\ crtPc = "read"
    /\ crtBody \in CrtBodies
    /\ crtPerm \in SUBSET {"b1", "b2"}
    /\ crtCreateFails \in BOOLEAN
    /\ crtCard = [nil |-> TRUE]
    /\ crtCards = <<>>
    /\ crtCalls = <<>>
    /\ crtResp = Response(0, "")
    /\ envAPIKey = ""
    /\ ValIdle
    /\ RelayIdle
    /\ RagIdle
    /\ PairIdle
    /\ ModIdle
    /\ SendIdle

\* io.ReadAll and json.Unmarshal.
CrtRead ==
    /\ crtPc = "read"
    /\ IF crtBody.kind = "unreadable"
       THEN crtPc' = "done" /\ crtResp' = InternalError("unexpected EOF") /\ crtCard' = crtCard
       ELSE IF crtBody.kind = "malformed"
       THEN crtPc' = "done" /\ crtResp' = NewErrBadRequest("invalid character") /\ crtCard' = crtCard
       ELSE crtPc' = "check" /\ crtResp' = crtResp /\ crtCard' = NewCard(crtBody)
    /\ UNCHANGED <<crtBody, crtPerm, crtCreateFails, crtCards, crtCalls, notCrt>>

\* The test of newCard.BoardID with the nil card answered as a bad request.
CheckBoardIDNilSafe(card) ==
    IF card.nil THEN NewErrBadRequest("boardID is required")
    ELSE IF card.BoardID = "" THEN NewErrBadRequest("boardID is required")
    ELSE Response(0, "")

\* The test of newCard.BoardID: the response it ends the handler with, or
\* the empty response.  Reading the field of a nil card panics.
CheckBoardID(card) ==
    IF card.nil THEN Panicked
    ELSE IF card.BoardID = "" THEN NewErrBadRequest("boardID is required")
    ELSE Response(0, "")

CrtCheck ==
    /\ crtPc = "check"
    /\ IF CheckBoardID(crtCard) # Response(0, "")
       THEN crtPc' = "done" /\ crtResp' = CheckBoardID(crtCard)
       ELSE crtPc' = "perm" /\ crtResp' = crtResp
    /\ UNCHANGED <<crtBody, crtPerm, crtCreateFails, crtCard, crtCards, crtCalls, notCrt>>

\* a.permissions.HasPermissionToBoard(userID, boardID,
\* model.PermissionManageBoardCards).
CrtPermission ==
    /\ crtPc = "perm"
    /\ crtCalls' = Append(crtCalls, ModCall("HasPermissionToBoard", crtCard.BoardID, "", ""))
    /\ IF crtCard.BoardID \notin crtPerm
       THEN crtPc' = "done" /\ crtResp' = NewErrPermission("access denied to create card")
       ELSE crtPc' = "valid" /\ crtResp' = crtResp
    /\ UNCHANGED <<crtBody, crtPerm, crtCreateFails, crtCard, crtCards, notCrt>>

\* newCard.PopulateWithBoardID and newCard.CheckValid.
CrtValidate ==
    /\ crtPc = "valid"
    /\ crtCard' = PopulateWithBoardID(crtCard, crtCard.BoardID)
    /\ IF CheckValid(crtCard') # ""
       THEN crtPc' = "done" /\ crtResp' = NewErrBadRequest(CheckValid(crtCard'))
       ELSE crtPc' = "create" /\ crtResp' = crtResp
    /\ UNCHANGED <<crtBody, crtPerm, crtCreateFails, crtCards, crtCalls, notCrt>>

\* a.app.CreateCard, the response, and the audit record written when the
\* handler returns.
CrtCreate ==
    /\ crtPc = "create"
    /\ crtPc' = "done"
    /\ IF crtCreateFails
       THEN /\ crtCards' = crtCards
            /\ crtResp' = InternalError("create failed")
            /\ crtCalls' = crtCalls \o <<ModCall("CreateCard", crtCard.BoardID, "", ""),
                                         ModCall("audit.LogRecord", crtCard.BoardID, "", "fail")>>
       ELSE /\ crtCards' = Append(crtCards, crtCard)
            /\ crtResp' = StatusOK
            /\ crtCalls' = crtCalls \o <<ModCall("CreateCard", crtCard.BoardID, "", ""),
                                         ModCall("audit.LogRecord", crtCard.BoardID, "", "success")>>
    /\ UNCHANGED <<crtBody, crtPerm, crtCreateFails, crtCard, notCrt>>

CrtNext ==
    \/ CrtRead
    \/ CrtCheck
    \/ CrtPermission
    \/ CrtValidate
    \/ CrtCreate

SpecCreate == CrtInit /\ [][CrtNext]_vars

-----------------------------------------------------------------------------
(* handleSend of the chat widget TaskAIChat (SpecSend).                    *)
(* sendCur is the component's state as the queued updates leave it,        *)
(* sendView the state of the last render: the handlers of the page and the *)
(* disabled attribute of its button were made from sendView.               *)

MaxSends == 2

ChatMessage(id, text, isUser, pending) ==
    [id |-> id, text |-> text, isUser |-> isUser, pending |-> pending]

AIChatMessage(role, content) == [role |-> role, content |-> content]

Thinking == "AI is thinking   ..."
NoReply == "AI {zan}{wu}{hui}{fu}"
Unavailable == "AI {fu}{wu}{zan}{shi}{bu}{ke}{yong}"
ErrorPrefix == "AI {chu}{cuo}{:}"

\* createMessageId: the k-th identifier made since the widget was mounted.
createMessageId(k) == k

\* buildAIHistory: the messages that are not pending, as role and content.
buildAIHistory(history) ==
    LET NotPending(m) == ~m.pending
        kept == SelectSeq(history, NotPending)
    IN  [i \in 1..Len(kept) |->
            AIChatMessage(IF kept[i].isUser THEN "user" ELSE "assistant", kept[i].text)]

\* The useState calls of the component.
SendMounted ==
    [messages |-> <<>>, input |-> "", showWelcomeMessage |-> TRUE,
     selectedFile |-> "null", isSending |-> FALSE, error |-> "null"]

SendInputs == {"hi", "  "}

\* The two guards of handleSend, on the state its closure holds.
SendAccepts(view) ==
    /\ ~view.isSending
    /\ ~(TrimSpace(view.input) = "" /\ view.selectedFile = "null")

\* handleSend reading the latest state, as a ref would give it.
SendAcceptsLatest(view) ==
    /\ ~sendCur.isSending
    /\ ~(TrimSpace(view.input) = "" /\ view.selectedFile = "null")

messageText(view) ==
    IF TrimSpace(view.input) # "" THEN TrimSpace(view.input)
    ELSE IF view.selectedFile # "null" THEN "Uploaded: " \o view.selectedFile
    ELSE ""

\* The placeholder's replacement in setMessages(prev => prev.map(...)).
ResolvePlaceholder(prev, placeholderId, text) ==
    [i \in 1..Len(prev) |->
        IF prev[i].id = placeholderId
        THEN [prev[i] EXCEPT !.text = text, !.pending = FALSE]
        ELSE prev[i]]

InFlight == {i \in DOMAIN sendReqs : sendReqs[i].state = "flight"}

SendInit ==
    /\ sendCur = SendMounted
    /\ sendView = SendMounted
    /\ sendReqs = <<>>
    /\ sendLog = <<>>
    /\ sendStale = FALSE
    /\ envAPIKey = ""
    /\ ValIdle
    /\ RelayIdle
    /\ RagIdle
    /\ PairIdle
    /\ ModIdle
    /\ CrtIdle

\* onChange of the textarea: setInput(e.target.value).
SendSetInput ==
    /\ \E text \in SendInputs \ {sendCur.input} :
          sendCur' = [sendCur EXCEPT !.input = text]
    /\ UNCHANGED <<sendView, sendReqs, sendLog, sendStale, notSend>>

\* handleFileSelect and handleDrop with a file that validateFile accepts.
SendSelectFile ==
    /\ sendCur.selectedFile = "null"
    /\ sendCur' = [sendCur EXCEPT !.selectedFile = "a.txt"]
    /\ UNCHANGED <<sendView, sendReqs, sendLog, sendStale, notSend>>

\* A render of the component: handlers and attributes are made anew from
\* the state.
SendRender ==
    /\ sendView # sendCur
    /\ sendView' = sendCur
    /\ UNCHANGED <<sendCur, sendReqs, sendLog, sendStale, notSend>>

\* handleSend up to its await: the guards on the closure's state, the queued
\* updates and the call of octoClient.sendAIChat.
handleSend(event) ==
    /\ Len(sendLog) < MaxSends
    /\ sendLog' = Append(sendLog, [event |-> event, accepted |-> SendAccepts(sendView),
                                   isSending |-> sendCur.isSending])
    /\ sendStale' = (sendStale \/ sendView.isSending # sendCur.isSending)
    /\ IF SendAccepts(sendView)
       THEN LET text          == messageText(sendView)
                userMessage   == ChatMessage(createMessageId(2 * Len(sendReqs) + 1), text, TRUE, FALSE)
                placeholderId == createMessageId(2 * Len(sendReqs) + 2)
                pendingMessage == ChatMessage(placeholderId, Thinking, FALSE, TRUE)
            IN  /\ sendCur' = [sendCur EXCEPT !.messages = @ \o <<userMessage, pendingMessage>>,
                                              !.input = "",
                                              !.selectedFile = "null",
                                              !.showWelcomeMessage = FALSE,
                                              !.error = "null",
                                              !.isSending = TRUE]
                /\ sendReqs' = Append(sendReqs,
                                  [userId        |-> userMessage.id,
                                   placeholderId |-> placeholderId,
                                   message       |-> text,
                                   messages      |-> buildAIHistory(sendView.messages \o <<userMessage>>),
                                   state         |-> "flight",
                                   text          |-> ""])
       ELSE UNCHANGED <<sendCur, sendReqs>>
    /\ UNCHANGED <<sendView, notSend>>

\* handleKeyPress with Enter and no Shift.
SendKeyDown ==
    \E key \in {"Enter", "a"}, shiftKey \in BOOLEAN :
        /\ key = "Enter" /\ ~shiftKey
        /\ handleSend("keydown")

\* onClick of the send button, which the page shows enabled.
SendClick ==
    /\ ~(sendView.isSending \/ (TrimSpace(sendView.input) = "" /\ sendView.selectedFile = "null"))
    /\ handleSend("click")

\* The await returns a response: the placeholder takes its message, and the
\* finally block runs.
SendResolve ==
    /\ \E i \in InFlight, message \in {"reply", ""} :
          \E text \in {IF message # "" THEN message ELSE NoReply} :
             /\ sendCur' = [sendCur EXCEPT
                               !.messages = ResolvePlaceholder(@, sendReqs[i].placeholderId, text),
                               !.isSending = FALSE]
             /\ sendReqs' = [sendReqs EXCEPT ![i].state = "ok", ![i].text = text]
    /\ UNCHANGED <<sendView, sendLog, sendStale, notSend>>

\* The await throws: the catch block and the finally block.
SendReject ==
    /\ \E i \in InFlight, err \in {[isError |-> TRUE, message |-> "timeout"],
                                   [isError |-> FALSE, message |-> ""]} :
          \E errorText \in {IF err.isError THEN err.message ELSE Unavailable} :
             /\ sendCur' = [sendCur EXCEPT
                               !.messages = ResolvePlaceholder(@, sendReqs[i].placeholderId,
                                                               ErrorPrefix \o errorText),
                               !.error = errorText,
                               !.isSending = FALSE]
             /\ sendReqs' = [sendReqs EXCEPT ![i].state = "err", ![i].text = ErrorPrefix \o errorText]
    /\ UNCHANGED <<sendView, sendLog, sendStale, notSend>>

SendNext ==
    \/ SendSetInput
    \/ SendSelectFile
    \/ SendRender
    \/ SendKeyDown
    \/ SendClick
    \/ SendResolve
    \/ SendReject

SpecSend == SendInit /\ [][SendNext]_vars

-----------------------------------------------------------------------------
(* Properties of the templates of generateSQL (SpecGenerate).              *)

\* The question asks for the caller's own tasks.
MyTasksAsked == Has(kwRenwu) /\ Has(kwWo)

RangeOf(f) == {f[i] : i \in DOMAIN f}

\* The equality and membership tests the assignee condition is to hold for
\* the catalog's person and multi-person properties.
AssigneeTests ==
    {<<"person", id, ragUserID>> : id \in RangeOf(ragCatalog.PersonPropIDs)}
        \cup {<<"multi", id, ragUserID>> : id \in RangeOf(ragCatalog.MultiPersonPropIDs)}

\* C21: for a my-tasks question, generateSQL calls no LLM and returns the
\* statement on blocks filtered by type = 'card', delete_at = 0 and the
\* assignee condition, newest first, at most 50 rows; the assignee condition
\* is the disjunction of one equality with the caller's id per person
\* property of the catalog and one membership test per multi-person
\* property (with one person property alone: that one equality).
C21_MyTasksTemplate ==
    (Generated /\ MyTasksAsked /\ ~ragCatalog.nil) =>
        /\ CallsOf("llm.sql") = {}
        /\ ragSQLText # ""
        /\ LET sel == ParseSelect(ragSQLText)
           IN  /\ sel.ok /\ sel.newestFirst /\ sel.limit50
               /\ OccursAt(ragSQLText, Len(ragSQLText) - Len(orderLimit) + 1, orderLimit)
               /\ IF AssigneeTests = {}
                  THEN sel.tests = << <<"type">>, <<"live">> >>
                  ELSE /\ Len(sel.tests) = 3
                       /\ sel.tests[1] = <<"type">> /\ sel.tests[2] = <<"live">>
                       /\ sel.tests[3][1] = "any"
                       /\ RangeOf(sel.tests[3][2]) = AssigneeTests
                       /\ Len(sel.tests[3][2]) = Cardinality(AssigneeTests)

\* A my-tasks question of u2 on boards whose only person property is p1: the
\* statement was built and has selected u2's card.
C21_Witness ==
    /\ MyTasksAsked /\ ragUserID = "u2" /\ ~ragCatalog.nil
    /\ ragCatalog.PersonPropIDs = <<"p1">> /\ ragCatalog.MultiPersonPropIDs = <<>>
    /\ ExecAt # {} /\ contextRows = <<3>>
    /\ ParseSelect(ragSQLText).conj[3] = "(json_extract(fields, '$.properties.p1') = 'u2')"

\* The property definitions of the boards that are not deleted and parse.
BoardProps ==
    UNION {RangeOf(boards[i].card_properties) :
              i \in {j \in 1..Len(boards) : ~boards[j].malformed /\ boards[j].delete_at = 0}}

\* A status property: a select or multi-select named Status or its Chinese
\* word, in any case.
IsStatusProp(prop) ==
    /\ prop.type \in {"select", "multiSelect"}
    /\ ToUpper(prop.name) \in {ToUpper("Status"), ToUpper("{zhuang}{tai}")}

\* The pairs of a status property and its option that mean done.
DoneOptions ==
    UNION {{<<pr.id, o.id>> :
               o \in {x \in RangeOf(pr.options) : ToUpper(x.value) \in {ToUpper(y) : y \in RangeOf(doneSyn)}}} :
              pr \in {q \in BoardProps : IsStatusProp(q)}}

CardIsDone(row) == \E d \in DoneOptions : HasProp(row, d[1]) /\ TextOf(row, d[1]) = d[2]

CardIsOverdue(row) ==
    \E id \in DOMAIN row.props : "from" \in DOMAIN row.props[id] /\ row.props[id].from < Now

RowOf(n) == CHOOSE r \in blocks : r.rowid = n

\* C22: every card the overdue template's statement selects has a date
\* property whose 'from' lies before the time of the query and is in no done
\* status; here for every catalog that was discovered and holds a date
\* property, with no, one or two status properties.
C22_OverdueRowsAreOverdueAndOpen ==
    (Generated /\ TemplateOf(ragQuestion) = "overdue" /\ ExecAt # {} /\ PrimaryExec.ok
        /\ ~ragCatalog.nil /\ ragCatalog.DatePropIDs # <<>>) =>
        \A n \in RangeOf(contextRows) : CardIsOverdue(RowOf(n)) /\ ~CardIsDone(RowOf(n))

\* The same whatever discovery returned: also for a catalog without a date
\* property and for the nil catalog of a failed discovery.
OverdueRowsWhateverCatalog ==
    (Generated /\ TemplateOf(ragQuestion) = "overdue" /\ ExecAt # {} /\ PrimaryExec.ok) =>
        \A n \in RangeOf(contextRows) : CardIsOverdue(RowOf(n)) /\ ~CardIsDone(RowOf(n))

\* With at most one status property in the catalog, and a date property, the
\* selected cards are overdue and not done.
OverdueRowsWithOneStatusProperty ==
    (Generated /\ TemplateOf(ragQuestion) = "overdue" /\ ExecAt # {} /\ PrimaryExec.ok
        /\ ~ragCatalog.nil /\ ragCatalog.DatePropIDs # <<>>
        /\ Cardinality(DOMAIN ragCatalog.StatusPropOptions) <= 1) =>
        \A n \in RangeOf(contextRows) : CardIsOverdue(RowOf(n)) /\ ~CardIsDone(RowOf(n))

\* The keywords of the other four templates.
TodoAsked == Has(kwDaiban) \/ Has(kwWeiwancheng) \/ Has(kwDaiban2)
DoneAsked == Has(kwYiwancheng) \/ (Has(kwWancheng) /\ ~Has(kwWeiwancheng))
ProgressAsked == Has(kwJinxingzhong)
OverdueAsked ==
    Has(kwYuqi) \/ Has(kwGuoqi) \/ Has(kwGuoleJiezhiRiqi) \/ Has(kwJiezhiRiqiYiguo) \/ Has(kwYiguoqi)

AnyTemplateAsked == MyTasksAsked \/ TodoAsked \/ DoneAsked \/ ProgressAsked \/ OverdueAsked

\* The first template, in the fixed order, whose keywords the question has.
FirstAsked ==
    IF MyTasksAsked THEN "my"
    ELSE IF TodoAsked THEN "todo"
    ELSE IF DoneAsked THEN "done"
    ELSE IF ProgressAsked THEN "progress"
    ELSE IF OverdueAsked THEN "overdue"
    ELSE ""

\* The conditions of the returned statement beyond type and delete_at.
StatementParts ==
    UNION {RangeOf(t[2]) : t \in {x \in RangeOf(ParseSelect(ragSQLText).tests) : Len(x) = 2 /\ x[1] = "any"}}

PartKinds == {p[1] : p \in StatementParts} \ {"person", "multi"}

\* The pairs of a status property of the catalog and an option id of it
\* whose label is one of syn.
CatalogOptions(syn) ==
    IF ragCatalog.nil THEN {}
    ELSE UNION {{<<sid, ragCatalog.StatusPropOptions[sid][l]>> :
                    l \in {ToUpper(x) : x \in RangeOf(syn)} \cap DOMAIN ragCatalog.StatusPropOptions[sid]} :
                 sid \in DOMAIN ragCatalog.StatusPropOptions}

InPartsUse(syn) ==
    /\ PartKinds \subseteq {"in"}
    /\ \A p \in StatementParts : p[1] = "in" => \A id \in p[3] : <<p[2], id>> \in CatalogOptions(syn)
    /\ CatalogOptions(syn) # {} => PartKinds = {"in"}

\* C23: generateSQL calls the LLM exactly when no template matches the
\* question; the templates are tried in the order my-tasks, to-do, done,
\* in-progress, overdue, and the first that matches alone decides the
\* statement's conditions: a my-tasks question that is also an overdue one
\* gets no date or status condition.
C23_FirstTemplateDecides ==
    Generated =>
        /\ (CallsOf("llm.sql") # {}) <=> ~AnyTemplateAsked
        /\ AnyTemplateAsked =>
            /\ ragSQLText # "" /\ ParseSelect(ragSQLText).ok
            /\ \A i \in 1..Len(ParseSelect(ragSQLText).tests) : ParseSelect(ragSQLText).tests[i] # <<>>
            /\ FirstAsked = "my" => PartKinds = {}
            /\ FirstAsked = "todo" =>
                /\ PartKinds \subseteq {"open"}
                /\ (~ragCatalog.nil /\ DOMAIN ragCatalog.StatusPropOptions # {}) => PartKinds = {"open"}
            /\ FirstAsked = "done" => InPartsUse(doneSyn)
            /\ FirstAsked = "progress" => InPartsUse(progSyn)
            /\ FirstAsked = "overdue" =>
                /\ PartKinds \subseteq {"date", "open"}
                /\ (~ragCatalog.nil /\ ragCatalog.DatePropIDs # <<>>) => "date" \in PartKinds

\* A question with the keywords of the my-tasks and the overdue template, on
\* a catalog with a date and a status property: the statement holds the
\* assignee condition alone.
C23_Witness ==
    /\ Generated /\ MyTasksAsked /\ OverdueAsked
    /\ ~ragCatalog.nil /\ ragCatalog.DatePropIDs # <<>> /\ DOMAIN ragCatalog.StatusPropOptions # {}
    /\ CallsOf("llm.sql") = {}
    /\ StatementParts # {} /\ PartKinds = {}

-----------------------------------------------------------------------------
(* Properties of extractSQL inside generateSQL (SpecGenerate, SpecRAG).    *)

\* The places where a block fenced with the sql tag begins and is closed.
BlockStarts(text) ==
    {i \in 1..Len(text) : OccursAt(text, i, FenceSQL) /\ IndexFrom(text, Fence, i + Len(FenceSQL)) # 0}

\* The content of the first such block.
BlockContent(text) ==
    LET i == CHOOSE x \in BlockStarts(text) : \A y \in BlockStarts(text) : x <= y
    IN  TrimSpace(SubSeq(text, i + Len(FenceSQL), IndexFrom(text, Fence, i + Len(FenceSQL)) - 1))

\* The lines that begin with SELECT in any letter case.
SelectLinesOf(text) ==
    LET lines == Split(text, "\n")
    IN  {i \in 1..Len(lines) : Len(TrimSpace(lines[i])) >= 6
                                 /\ ToUpper(SubSeq(TrimSpace(lines[i]), 1, 6)) = "SELECT"}

\* What is to be extracted from an output of the LLM; a line and the whole
\* text may come with or without their trailing semicolons.
ToExtract(answer) ==
    LET text == TrimSpace(answer)
        lines == Split(text, "\n")
        first == TrimSpace(lines[CHOOSE i \in SelectLinesOf(text) : \A j \in SelectLinesOf(text) : i <= j])
    IN  IF BlockStarts(text) # {} THEN {BlockContent(text)}
        ELSE IF SelectLinesOf(text) # {} THEN {first, TrimRight(first, ";")}
        ELSE {text, TrimRight(text, ";")}

\* The outputs the LLM gave to the Text-to-SQL prompt.
SQLOutputs == {ragLog[i].json : i \in {j \in CallsOf("llm.sql") : ragLog[j].ok}}

Extracted(answer) ==
    /\ Cardinality(ValidateAt) = 1
    /\ \A i \in ValidateAt :
        /\ ragLog[i].sql \in ToExtract(answer)
        /\ \A j \in CallsOf("llm.sql") : j < i
        /\ ragSQLText \in {"", ragLog[i].sql}
        /\ ragSQLText = "" <=> ~ragLog[i].ok

\* C24: of an output of the LLM, generateSQL validates the content of the
\* fenced SQL block if the output has one, else the first line that begins
\* with SELECT in any letter case, else the whole trimmed text; it returns
\* that text only after validateReadOnlySQL has accepted it.
C24_ExtractThenValidate ==
    Generated => \A answer \in SQLOutputs : Extracted(answer)

\* The same for the outputs whose first fenced SQL block, if any, begins with
\* SELECT in capital letters.
ExtractThenValidateCapitalBlocks ==
    Generated =>
        \A answer \in SQLOutputs :
            (BlockStarts(TrimSpace(answer)) = {} \/ HasPrefix(BlockContent(TrimSpace(answer)), "SELECT"))
                => Extracted(answer)

\* A fenced block in lower case of two lines was answered: its first line
\* alone was validated, returned and executed, and rows were selected.
BlockCutToFirstLine ==
    /\ ExecAt # {} /\ PrimaryExec.ok /\ contextRows # <<>>
    /\ \E answer \in SQLOutputs :
        /\ BlockStarts(TrimSpace(answer)) # {}
        /\ ragSQLText # BlockContent(TrimSpace(answer))
        /\ HasPrefix(BlockContent(TrimSpace(answer)), ragSQLText \o "\n")

-----------------------------------------------------------------------------
(* Properties of buildFinalPrompt and of the text executeQuery returns     *)
(* (SpecRAG).                                                              *)

\* The instructions every prompt begins with.
PromptPreamble ==
    "You are a Focal Board task assistant. From the live JSON data I give you, write a short, friendly, readable summary of the user's tasks in Chinese.\n\n"
    \o "[Important rules]:\n"
    \o "1. Do **not** repeat or print the raw JSON data.\n"
    \o "2. Start your summary **directly** (for example: 'Hello! According to your tasks...').\n"
    \o "3. Use emoji to organise your answer.\n"
    \o "4. If the data holds overdue tasks, point them out.\n\n"

\* The question's characters, one after the other.
RECURSIVE Verbatim(_)
Verbatim(q) == IF Len(q) = 0 THEN "" ELSE Verbatim(SubSeq(q, 1, Len(q) - 1)) \o q[Len(q)]

\* C25: the step that composes the prompt returns the fixed preamble, then
\* the question character by character, then the serialized result
\* character by character, the same text for the same two inputs, and
\* changes nothing but the value returned.
C25_PromptVerbatimNoStateChange ==
    [][(ragPc = "prompt" /\ ragPc' = "done") =>
        /\ ragResult'.err = NoErr
        /\ ragResult'.prompt = PromptPreamble \o "User question: \"" \o Verbatim(ragQuestion)
                                  \o "\"\n\nLive data (JSON):\n" \o contextJSON
                                  \o "\n\nYour answer (start the summary directly):\n"
        /\ UNCHANGED <<ragQuestion, ragUserID, envAPIKey, cfgDBType, boards, blocks, intent, ragCatalog,
                       ragSQLText, contextJSON, contextRows, ragLog, valVars, relayVars, pairVars,
                       modVars, crtVars, sendVars>>]_vars

\* A prompt was composed of a question with quotation marks, <, & and a line
\* break and of rows whose text json.Marshal had escaped.
C25_Witness ==
    /\ ragPc = "done" /\ ragResult.err = NoErr
    /\ Contains(ragQuestion, <<"\"">>) /\ Contains(ragQuestion, <<"\n">>)
    /\ Len(contextJSON) > 64 /\ Contains(contextJSON, "\\u003c")
    /\ Contains(ragResult.prompt, contextJSON)
    /\ Contains(ragResult.prompt, "\"wo" \o "de" \o "ren" \o "wu\"<&\n")

\* A JSON text read back (encoding/json's Unmarshal on a list of objects
\* whose values are strings, integers and null).
JString(t) == [kind |-> "string", text |-> t, num |-> 0]
JInt(n) == [kind |-> "int", text |-> "", num |-> n]
JNull == [kind |-> "null", text |-> "", num |-> 0]

\* The closing quotation mark of the string whose content begins at j.
RECURSIVE StringEnd(_, _)
StringEnd(s, j) ==
    IF Char(s, j) = "\"" THEN j
    ELSE IF Char(s, j) = "\\" THEN StringEnd(s, j + 2)
    ELSE StringEnd(s, j + 1)

UnicodeChar(hex) ==
    IF hex = "003c" THEN "<" ELSE IF hex = "003e" THEN ">" ELSE IF hex = "0026" THEN "&" ELSE "?"

RECURSIVE Unescape(_, _, _)
Unescape(s, lo, hi) ==
    IF lo > hi THEN ""
    ELSE IF Char(s, lo) # "\\" THEN SubSeq(s, lo, lo) \o Unescape(s, lo + 1, hi)
    ELSE IF Char(s, lo + 1) = "u" THEN UnicodeChar(SubSeq(s, lo + 2, lo + 5)) \o Unescape(s, lo + 6, hi)
    ELSE (IF Char(s, lo + 1) = "n" THEN "\n" ELSE SubSeq(s, lo + 1, lo + 1)) \o Unescape(s, lo + 2, hi)

IsDigit(c) == \E d \in 1..10 : Char(Digits, d) = c

RECURSIVE NumberEnd(_, _)
NumberEnd(s, j) == IF j <= Len(s) /\ IsDigit(Char(s, j)) THEN NumberEnd(s, j + 1) ELSE j - 1

RECURSIVE Atoi(_)
Atoi(t) ==
    IF Len(t) = 0 THEN 0
    ELSE 10 * Atoi(SubSeq(t, 1, Len(t) - 1)) + ((CHOOSE d \in 1..10 : Char(Digits, d) = Char(t, Len(t))) - 1)

\* The value that begins at i, and the index after it.
ParseValue(s, i) ==
    IF Char(s, i) = "\"" THEN [val |-> JString(Unescape(s, i + 1, StringEnd(s, i + 1) - 1)),
                               next |-> StringEnd(s, i + 1) + 1]
    ELSE IF OccursAt(s, i, "null") THEN [val |-> JNull, next |-> i + 4]
    ELSE [val |-> JInt(Atoi(SubSeq(s, i, NumberEnd(s, i)))), next |-> NumberEnd(s, i) + 1]

\* The members of an object from i on, i after "{" or after a comma.
RECURSIVE ParseMembers(_, _, _)
ParseMembers(s, i, obj) ==
    IF Char(s, i) = "}" THEN [obj |-> obj, next |-> i + 1]
    ELSE LET k == IF Char(s, i) = "," THEN i + 1 ELSE i
             key == Unescape(s, k + 1, StringEnd(s, k + 1) - 1)
             v == ParseValue(s, StringEnd(s, k + 1) + 2)
         IN  ParseMembers(s, v.next, MapPut(obj, key, v.val))

\* The objects of a list from i on, i after "[" or after an object.
RECURSIVE ParseObjects(_, _)
ParseObjects(s, i) ==
    IF Char(s, i) = "]" THEN <<>>
    ELSE LET k == IF Char(s, i) = "," THEN i + 1 ELSE i
             o == ParseMembers(s, k + 1, <<>>)
         IN  <<o.obj>> \o ParseObjects(s, o.next)

ParseJSONRows(text) == ParseObjects(text, 2)

\* The last call of executeQuery that returned a text.
OkExecs == {i \in ExecAt : ragLog[i].ok}
LastOkExec == ragLog[CHOOSE i \in OkExecs : \A j \in OkExecs : i >= j]

\* A column's value in a row of blocks, as the driver hands it over.
ColumnValue(row, c) ==
    IF c \in row.nulls THEN JNull
    ELSE IF c \in IntColumns THEN JInt(row[c])
    ELSE JString(row[c])

\* The rows a query produced, in its order, keyed by its columns.
RowsProduced(cols, rowids) ==
    [k \in 1..Len(rowids) |-> [c \in RangeOf(cols) |-> ColumnValue(RowOf(rowids[k]), c)]]

\* C26: the text executeQuery returns, parsed again, is the sequence of rows
\* the query produced, in the same order, each row keyed by column name, a
\* text as a string, an integer as an integer, NULL as null.
C26_ResultTextRoundTrips ==
    OkExecs # {} =>
        /\ contextJSON = LastOkExec.json
        /\ ParseJSONRows(contextJSON) = RowsProduced(ParseSelect(LastOkExec.sql).cols, contextRows)

\* Two rows came back, one with NULL for its title, a text and an integer in
\* each.
C26_Witness ==
    /\ OkExecs # {} /\ Len(contextRows) = 2
    /\ \E k \in 1..2 : "title" \in RowOf(contextRows[k]).nulls
    /\ {"title", "update_at", "fields"} \subseteq RangeOf(ParseSelect(LastOkExec.sql).cols)
    /\ ParseJSONRows(contextJSON)[1].update_at.kind = "int"

-----------------------------------------------------------------------------
(* Properties of the pipeline's use of database/sql (SpecRAG).             *)

\* The connections and the cursors open after the first n entries of ragLog.
OpenConns(n) ==
    Cardinality({i \in 1..n : ragLog[i].op = "sql.Open" /\ ragLog[i].ok})
        - Cardinality({i \in 1..n : ragLog[i].op = "db.Close"})

OpenCursors(n) ==
    Cardinality({i \in 1..n : ragLog[i].op = "db.Query" /\ ragLog[i].ok})
        - Cardinality({i \in 1..n : ragLog[i].op = "rows.Close"})

\* The returns of discoverPropertyCatalog and of executeQuery, but for the
\* refusal of an engine that is not sqlite3.
DBReturns ==
    {i \in CallsOf("discover") \cup CallsOf("exec") : ragLog[i].err.err # "ErrUnsupportedDBType"}

\* C27: discoverPropertyCatalog and executeQuery each open a connection of
\* their own and have closed it, and their cursor, when they return, with or
\* without error; within one call of PrepareRAGResponse at most one
\* connection is open at any time, and none when it returns.
C27_ConnectionsReleased ==
    /\ \A n \in 0..Len(ragLog) :
        /\ OpenConns(n) \in {0, 1}
        /\ OpenCursors(n) \in {0, 1}
        /\ OpenCursors(n) <= OpenConns(n)
    /\ \A i \in DBReturns :
        /\ OpenConns(i) = 0 /\ OpenCursors(i) = 0
        /\ \E j \in CallsOf("sql.Open") :
            /\ j < i
            /\ \A k \in DBReturns : ~(j < k /\ k < i)
    /\ Cardinality(CallsOf("sql.Open")) = Cardinality(DBReturns)
    /\ ragPc = "done" => OpenConns(Len(ragLog)) = 0

\* PrepareRAGResponse has returned after three uses of the database, the
\* last of which failed with its cursor open.
C27_Witness ==
    /\ ragPc = "done"
    /\ Cardinality(CallsOf("sql.Open")) = 3
    /\ \E i \in CallsOf("rows.Scan") : ~ragLog[i].ok /\ OpenCursors(i) = 1 /\ OpenConns(i) = 1
    /\ \E i \in CallsOf("db.Query") : ~ragLog[i].ok

-----------------------------------------------------------------------------
(* Properties of discoverPropertyCatalog (SpecGenerate).                   *)

\* The property definitions of the boards that are not deleted and parse, in
\* the order of the boards and of their definitions.
RECURSIVE PropsInOrder(_)
PropsInOrder(rows) ==
    IF rows = <<>> THEN <<>>
    ELSE (IF Head(rows).malformed \/ Head(rows).delete_at # 0 THEN <<>> ELSE Head(rows).card_properties)
            \o PropsInOrder(Tail(rows))

\* The ids of those of type t.
IDsOfType(t) ==
    LET of == SelectSeq(PropsInOrder(boards), LAMBDA pr : pr.type = t /\ pr.id # "")
    IN  [i \in 1..Len(of) |-> of[i].id]

AllIDsOfType(t) ==
    LET of == SelectSeq(PropsInOrder(boards), LAMBDA pr : pr.type = t)
    IN  [i \in 1..Len(of) |-> of[i].id]

\* The options of a property that have an id and a label.
NamedOptions(pr) == {o \in RangeOf(pr.options) : o.id # "" /\ o.value # ""}

\* The status properties the catalog is to hold.
StatusProps == {pr \in BoardProps : IsStatusProp(pr) /\ pr.id # "" /\ NamedOptions(pr) # {}}

\* Discovery met no failure of the database.
DiscoveryRead ==
    /\ CallsOf("discover") # {}
    /\ \A i \in 1..Len(ragLog) : ragLog[i].sql = discoverSQL => ragLog[i].ok

-----------------------------------------------------------------------------
(* Properties of two calls of PrepareRAGResponse at the same time          *)
(* (SpecPair).                                                             *)

\* C28: however the steps of two calls interleave, a call that has returned
\* has returned the prompt or error it returns when run alone on the same
\* database and with the same answers of the LLM, and the catalog a call
\* built its statement from is the one its own discovery built.
C28_CallsDoNotInterfere ==
    \A p \in Procs :
        /\ inv[p].pc = "done" => inv[p].ret = RunAlone(inv[p].userID, inv[p].question, inv[p].env)
        /\ inv[p].usedFrom \in {0, p}
        /\ inv[p].builtBy \in {0, p}

\* Both calls have returned a prompt, each built from its own catalog, the
\* first having discovered the boards' properties and the second none, and
\* the prompts differ.
C28_Witness ==
    /\ \A p \in Procs : inv[p].pc = "done" /\ inv[p].ret.err = NoErr /\ inv[p].usedFrom = p
    /\ ~inv[1].catalog.nil /\ inv[2].catalog.nil
    /\ inv[1].ret.prompt # inv[2].ret.prompt

-----------------------------------------------------------------------------
(* Properties of handleAIModifyCardStatus (SpecModify).                    *)

ModCallsOf(op) == {i \in 1..Len(modCalls) : modCalls[i].op = op}

\* The request names no card or no status.
FieldMissing == modBody.kind = "json" /\ (modBody.cardId = "" \/ modBody.status = "")

\* C30: a request whose cardId or status is empty is answered 400 with no
\* card fetched, no permission asked for and nothing patched; PatchCard is
\* called, and a card changed, only for a request with a cardId and a
\* status, after the card was fetched, the caller was found to hold
\* PermissionManageBoardCards on the card's board and the board was
\* fetched, in that order, and on the property of that board named
\* "Status".
C30_ModifyChecksBeforePatching ==
    /\ FieldMissing =>
        /\ modCalls = <<>>
        /\ modCards = ModCardsAtStart
        /\ modPc = "done" => modResp.code = 400
    /\ \A c \in DOMAIN modCards :
        modCards[c] # ModCardsAtStart[c] => \E i \in ModCallsOf("PatchCard") : modCalls[i].arg = c
    /\ \A i \in ModCallsOf("PatchCard") :
        /\ modBody.kind = "json" /\ modBody.cardId # "" /\ modBody.status # ""
        /\ modCalls[i].arg = modBody.cardId /\ modCalls[i].value = modBody.status
        /\ modBody.cardId \in DOMAIN modCards
        /\ LET b == ModCardsAtStart[modBody.cardId].boardID
           IN  /\ b \in modPerm
               /\ ~modBoards[b].fails
               /\ \E k \in 1..Len(modBoards[b].props) :
                    modBoards[b].props[k].name = "Status" /\ modBoards[b].props[k].id = modCalls[i].prop
               /\ \E j \in ModCallsOf("GetCardByID"), k \in ModCallsOf("HasPermissionToBoard"),
                     l \in ModCallsOf("GetBoard") :
                    /\ j < k /\ k < l /\ l < i
                    /\ modCalls[j].arg = modBody.cardId /\ modCalls[k].arg = b /\ modCalls[l].arg = b

\* A request with a cardId and an empty status was answered 400 although
\* the card exists, the caller may manage its board's cards and the board
\* has a Status property.
C30_Witness ==
    /\ modPc = "done" /\ modResp = NewErrBadRequest("status is required")
    /\ modBody = UpdateRequest("k1", "") /\ "b1" \in modPerm
    /\ FindStatusProperty(modBoards["b1"].props) = "s1"
    /\ modCalls = <<>>

\* A card was patched.
CardPatched ==
    /\ modPc = "done" /\ modResp.code = 200
    /\ modCards["k1"].props = [s3 |-> "Done"]

-----------------------------------------------------------------------------
(* Properties of handleAICreateCard (SpecCreate).                          *)

\* The request may create a card: its body names a board, the caller holds
\* PermissionManageBoardCards on it, and the card passes CheckValid.
MayCreate ==
    /\ crtBody.kind = "json" /\ crtBody.boardId # ""
    /\ crtBody.boardId \in crtPerm
    /\ CheckValid(PopulateWithBoardID(NewCard(crtBody), crtBody.boardId)) = ""

\* The handler wrote an error response.
ErrorAnswered == crtResp.code >= 400

\* C31: a card is created only for a body with a boardId, on a board on
\* which the caller holds PermissionManageBoardCards, and when the card
\* passes CheckValid; a request of any other kind is answered with an error
\* response other than 200 and creates no card.
C31_CreateOnlyWhenAllowed ==
    /\ crtCards # <<>> => MayCreate /\ Len(crtCards) = 1 /\ crtCards[1].BoardID = crtBody.boardId
    /\ ~MayCreate => crtCards = <<>> /\ (crtPc = "done" => ErrorAnswered)

\* No card is created, and CreateCard is not called, unless the request may
\* create one.
NoCardUnlessAllowed ==
    /\ crtCards # <<>> => MayCreate /\ Len(crtCards) = 1 /\ crtCards[1].BoardID = crtBody.boardId
    /\ ~MayCreate => crtCards = <<>> /\ ModCall("CreateCard", crtBody.boardId, "", "") \notin RangeOf(crtCalls)

\* A request that may not create a card and whose body is not the text null
\* is answered with an error.
ErrorUnlessNullBody ==
    ~MayCreate /\ crtBody.kind # "null" /\ crtPc = "done" => ErrorAnswered

\* The body null ended the handler without a response.
NullBodyPanics ==
    crtPc = "done" /\ crtBody.kind = "null" /\ crtResp = Panicked /\ crtCards = <<>>

\* A card was created.
CardCreated ==
    crtPc = "done" /\ crtResp.code = 200 /\ Len(crtCards) = 1 /\ MayCreate

-----------------------------------------------------------------------------
(* Properties of the fallback of PrepareRAGResponse (SpecRAG).             *)

\* The calls of executeQuery so far, as positions of ragLog, in order.
ExecCalls == SelectSeq([i \in 1..Len(ragLog) |-> i], LAMBDA i : ragLog[i].op = "exec")

\* C32: executeQuery is called at most twice, first on the generated
\* statement and then on the fallback statement; the second call is made
\* only after the first returned no error and the text [], and when the
\* first call fails nothing of the database is touched after it and the
\* pipeline returns the first call's error and no prompt.
C32_FallbackOnlyAfterEmptySuccess ==
    /\ Len(ExecCalls) <= 2
    /\ Len(ExecCalls) >= 1 => ragLog[ExecCalls[1]].sql = ragSQLText
    /\ Len(ExecCalls) = 2 =>
        /\ ragLog[ExecCalls[2]].sql = fallbackSQL
        /\ ragLog[ExecCalls[1]].ok
        /\ TrimSpace(ragLog[ExecCalls[1]].json) = "[]"
    /\ (Len(ExecCalls) >= 1 /\ ~ragLog[ExecCalls[1]].ok) =>
        /\ ExecCalls[1] = Len(ragLog)
        /\ ragPc = "done"
        /\ ragResult = Return("", ragLog[ExecCalls[1]].err)

\* The primary query failed on a database that holds cards: the pipeline
\* returned its error and the fallback statement was not executed.
C32_Witness ==
    /\ ragPc = "done"
    /\ Len(ExecCalls) = 1
    /\ ~ragLog[ExecCalls[1]].ok
    /\ ragResult.err = ragLog[ExecCalls[1]].err
    /\ blocks # {}

\* The fallback ran after an empty primary result.
FallbackAfterEmptyResult ==
    /\ Len(ExecCalls) = 2
    /\ ragLog[ExecCalls[1]].ok /\ ragLog[ExecCalls[1]].json = "[]"
    /\ ragLog[ExecCalls[2]].ok /\ ragLog[ExecCalls[2]].json # "[]"

-----------------------------------------------------------------------------
(* Properties of the classifier's reading of the LLM's answer              *)
(* (SpecClassify).                                                         *)

\* The LLM answered the classifier with a text that holds both words.
AnswerHasBoth ==
    \E i \in CallsOf("llm.classify") :
        /\ ragLog[i].ok
        /\ Contains(ToLower(ragLog[i].json), "chat")
        /\ Contains(ToLower(ragLog[i].json), "query_data")

\* C33: when the LLM's answer to the classifier holds both "chat" and
\* "query_data", classifyIntent returns query_data, wherever the two words
\* stand in the answer, and the pipeline goes on to generateSQL.
C33_QueryDataBeforeChat ==
    Classified /\ AnswerHasBoth =>
        /\ intent = intentQueryData
        /\ ragPc = "generate"
        /\ ragResult = Return("", NoErr)

\* The answer "Chat or QUERY_DATA", where chat stands first, was read as
\* query_data.
C33_Witness ==
    /\ Classified /\ AnswerHasBoth
    /\ \E i \in CallsOf("llm.classify") : ragLog[i].json = "Chat or QUERY_DATA"
    /\ intent = intentQueryData

-----------------------------------------------------------------------------
(* Properties of the LLM calls of a keyword-classified question (SpecRAG). *)

\* The calls of callQwenInternal and the HTTP requests they sent.
LLMCalls == CallsOf("llm.classify") \cup CallsOf("llm.sql") \cup CallsOf("http")

\* C34 as stated: a call of PrepareRAGResponse whose question a keyword rule
\* of classifyIntent accepts makes no LLM call at any step.
C34_KeywordQuestionsNeedNoLLM ==
    MatchesClassifierRule => LLMCalls = {}

\* C34, amended: a question a keyword rule of classifyIntent accepts is
\* classified without an LLM call; generateSQL then makes no LLM call when
\* the question matches a template (my tasks, to-do, done, in progress,
\* overdue), so that the whole call makes none, and exactly one LLM call
\* when it matches no template, as "query tasks" does.
C34_KeywordQuestionsCallLLMWithoutTemplate ==
    MatchesClassifierRule =>
        /\ CallsOf("llm.classify") = {}
        /\ MatchesTemplate => LLMCalls = {}
        /\ Generated /\ ~MatchesTemplate =>
            Cardinality(CallsOf("llm.sql")) = 1 /\ Cardinality(CallsOf("http")) <= 1

\* "query tasks" was classified by keyword and its statement written by the
\* LLM.
C34_Witness ==
    /\ ragQuestion = <<"cha", "xun", "ren", "wu">>
    /\ MatchesClassifierRule /\ ~MatchesTemplate
    /\ ragPc = "done" /\ ragResult.err = NoErr
    /\ CallsOf("llm.classify") = {}
    /\ \E i \in CallsOf("llm.sql") : ragLog[i].ok /\ ragLog[i].json # ""
    /\ Cardinality(CallsOf("http")) = 1

\* An overdue question was answered without any LLM call.
TemplateQuestionWithoutLLM ==
    /\ ragQuestion = <<"yu", "qi", "ren", "wu">>
    /\ ragPc = "done" /\ ragResult.err = NoErr /\ LLMCalls = {}

-----------------------------------------------------------------------------
(* Properties of the database connections of an invocation on another      *)
(* engine than sqlite3 (SpecRAG).                                          *)

\* The calls of database/sql that open or use a connection.
ConnectionCalls == CallsOf("sql.Open") \cup CallsOf("db.Query")

\* C35: when the configured engine is not sqlite3, the invocation makes no
\* call of sql.Open and none of db.Query at any step, the catalog discovery
\* included.
C35_NoConnectionOnOtherEngine ==
    ToLower(cfgDBType) # "sqlite3" => ConnectionCalls = {}

\* On another engine than sqlite3 the only connection is the one of the
\* catalog discovery, and an invocation that reaches executeQuery returns the
\* unsupported-engine error.
OnlyDiscoveryConnectsOnOtherEngine ==
    ToLower(cfgDBType) # "sqlite3" =>
        /\ \A i \in ConnectionCalls : ragLog[i].sql = discoverSQL
        /\ Cardinality(CallsOf("sql.Open")) <= 1
        /\ CallsOf("exec") # {} => ragResult = Return("", Err("ErrUnsupportedDBType", ""))

\* On postgres the discovery opened the sqlite3 file and read the boards
\* before executeQuery refused the engine.
DiscoveryConnectedOnPostgres ==
    /\ cfgDBType = "postgres"
    /\ ragPc = "done" /\ ragResult = Return("", Err("ErrUnsupportedDBType", ""))
    /\ \E i \in CallsOf("sql.Open"), j \in CallsOf("db.Query") :
        i < j /\ ragLog[i].ok /\ ragLog[j].ok /\ ragLog[j].sql = discoverSQL
    /\ ~ragCatalog.nil

-----------------------------------------------------------------------------
(* Properties of the scope of a my-tasks answer (SpecRAG).                 *)

\* The card has the user as the value of a person property of the boards or
\* among the values of a multi-person property.
AssignedTo(row, user) ==
    \E prop \in BoardProps :
        \/ /\ prop.type = "person" /\ HasProp(row, prop.id)
           /\ "text" \in DOMAIN row.props[prop.id] /\ row.props[prop.id].text = user
        \/ /\ prop.type = "multiPerson" /\ HasProp(row, prop.id)
           /\ "list" \in DOMAIN row.props[prop.id] /\ user \in row.props[prop.id].list

\* The cards behind the data of the prompt that are not the user's.
ForeignRows == {n \in RangeOf(contextRows) : ~AssignedTo(RowOf(n), ragUserID)}

\* C36: for a my-tasks question and a catalog with a person or multi-person
\* property, when the primary query returns a row the fallback is not run,
\* the data of the prompt is the primary result, and every card in it is
\* assigned to the asking user; a card of somebody else is in the data of a
\* returned my-tasks prompt only after the fallback query or when the
\* catalog is nil or holds no person and no multi-person property.
C36_MyTasksScopedToUser ==
    /\ (MyTasksAsked /\ Generated /\ ~ragCatalog.nil /\ AssigneeTests # {}
            /\ ExecAt # {} /\ PrimaryExec.ok /\ ~PrimaryEmpty) =>
        /\ Cardinality(ExecAt) = 1
        /\ contextJSON = PrimaryExec.json /\ contextRows # <<>>
        /\ ForeignRows = {}
        /\ ragPc = "done" =>
            ragResult.err = NoErr /\ Contains(ragResult.prompt, ":\n" \o contextJSON \o "\n\n")
    /\ (MyTasksAsked /\ ragPc = "done" /\ ragResult.err = NoErr /\ ForeignRows # {}) =>
        \/ BothExecuted
        \/ ragCatalog.nil
        \/ AssigneeTests = {}

\* u1 asked for their tasks on a database with a card of u1 and a card of
\* u2: the prompt holds u1's card alone.
C36_Witness ==
    /\ MyTasksAsked /\ ragUserID = "u1" /\ ~ragCatalog.nil /\ AssigneeTests # {}
    /\ \E r \in blocks : r.id = "c1"
    /\ \E r \in blocks : r.id = "c2"
    /\ ragPc = "done" /\ ragResult.err = NoErr
    /\ contextRows = <<1>>
    /\ Contains(ragResult.prompt, "\"id\":\"c1\"") /\ ~Contains(ragResult.prompt, "\"id\":\"c2\"")

\* A card of u2 reached u1's my-tasks prompt through the fallback query.
ForeignRowByFallback ==
    /\ MyTasksAsked /\ ragPc = "done" /\ ragResult.err = NoErr
    /\ ~ragCatalog.nil /\ AssigneeTests # {}
    /\ BothExecuted /\ ForeignRows # {}

-----------------------------------------------------------------------------
\* The message list of handleAIChatStream

\* The lists handleAIChatStream has sent to the LLM, with the result of
\* PrepareRAGResponse they were chosen from.
StreamSent == {llmSent[i] : i \in DOMAIN llmSent}

\* C37 (as stated): in handleAIChatStream, when PrepareRAGResponse succeeds
\* the message list sent to the LLM is exactly one user message whose content
\* is the FinalPrompt, the request's history not being forwarded; when it
\* fails the list is the request's history if that is not empty, and the
\* single original message otherwise.
C37_StreamMessageList ==
    \A sent \in StreamSent :
        IF ragResult.err = NoErr
        THEN sent = <<Message("user", ragResult.prompt)>>
        ELSE IF Len(aiReq.Messages) > 0
             THEN sent = aiReq.Messages
             ELSE sent = <<Message("user", aiReq.Message)>>

\* What holds of every request: the list is as C37 says except for a request
\* with neither a message nor a history after a failed pipeline, whose list
\* is empty.
StreamMessageListUnlessEmptyRequest ==
    \A sent \in StreamSent :
        IF ragResult.err = NoErr
        THEN sent = <<Message("user", ragResult.prompt)>>
        ELSE IF Len(aiReq.Messages) > 0
             THEN sent = aiReq.Messages
             ELSE IF aiReq.Message # ""
                  THEN sent = <<Message("user", aiReq.Message)>>
                  ELSE sent = <<>>

\* A prompt was sent alone for a request that carried a history.
PromptSentWithoutHistory ==
    /\ ragResult.err = NoErr
    /\ Len(aiReq.Messages) > 0
    /\ llmSent = << <<Message("user", ragResult.prompt)>> >>

\* The history was sent after a failed pipeline.
HistorySentAfterFailure ==
    /\ PipelineFailed
    /\ Len(aiReq.Messages) > 0
    /\ llmSent = <<aiReq.Messages>>

\* An empty list was sent to the LLM.
EmptyListSentToLLM ==
    /\ PipelineFailed
    /\ aiReq = EmptyRequest
    /\ llmSent = << <<>> >>

-----------------------------------------------------------------------------
\* The sends of the chat widget

Placeholders(id) == {j \in DOMAIN sendCur.messages : sendCur.messages[j].id = id}

\* Every accepted send has appended exactly one user message and, right
\* after it, one placeholder, and the list holds nothing else.
OneUserMessageAndPlaceholderPerSend ==
    /\ Len(sendCur.messages) = 2 * Len(sendReqs)
    /\ Len(sendReqs) = Cardinality({k \in DOMAIN sendLog : sendLog[k].accepted})
    /\ \A i \in DOMAIN sendReqs :
          /\ sendCur.messages[2 * i - 1] = ChatMessage(sendReqs[i].userId, sendReqs[i].message, TRUE, FALSE)
          /\ sendCur.messages[2 * i].id = sendReqs[i].placeholderId
          /\ ~sendCur.messages[2 * i].isUser
          /\ Placeholders(sendReqs[i].placeholderId) = {2 * i}

\* A placeholder is pending while its request is in flight, and holds the
\* text its request ended with afterwards: no later update touches it.
PlaceholderResolvedOnce ==
    \A i \in DOMAIN sendReqs :
        IF sendReqs[i].state = "flight"
        THEN sendCur.messages[2 * i] = ChatMessage(sendReqs[i].placeholderId, Thinking, FALSE, TRUE)
        ELSE /\ sendCur.messages[2 * i] = ChatMessage(sendReqs[i].placeholderId, sendReqs[i].text, FALSE, FALSE)
             /\ sendReqs[i].state = "ok" => sendReqs[i].text \in {"reply", NoReply}
             /\ sendReqs[i].state = "err" =>
                    sendReqs[i].text \in {ErrorPrefix \o "timeout", ErrorPrefix \o Unavailable}

\* isSending is false when no request is in flight.
NotSendingWhenIdle == InFlight = {} => ~sendCur.isSending

OneRequestInFlightFromFreshRenders ==
    /\ ~sendStale =>
          /\ Cardinality(InFlight) <= 1
          /\ \A k \in DOMAIN sendLog : sendLog[k].isSending => ~sendLog[k].accepted
          /\ sendCur.isSending = (InFlight # {})
    /\ OneUserMessageAndPlaceholderPerSend
    /\ PlaceholderResolvedOnce
    /\ NotSendingWhenIdle

\* A send from a render that showed isSending was ignored.
SendIgnoredWhileSending ==
    /\ ~sendStale
    /\ \E k \in DOMAIN sendLog : sendLog[k].isSending /\ ~sendLog[k].accepted
    /\ Cardinality(InFlight) = 1

\* Two sends from the same render are both in flight.
TwoRequestsInFlight ==
    /\ Cardinality(InFlight) = 2
    /\ \A k \in 1..2 : sendLog[k].event = "keydown" /\ sendLog[k].accepted
    /\ ~sendLog[1].isSending /\ sendLog[2].isSending
    /\ sendReqs[1].message = sendReqs[2].message

\* A request has failed and another has succeeded, and nothing is in flight.
RepliesAndErrorsShown ==
    /\ InFlight = {}
    /\ \E i, j \in DOMAIN sendReqs : sendReqs[i].state = "ok" /\ sendReqs[j].state = "err"
    /\ ~sendCur.isSending

=============================================================================
